---- MODULE Spec2Model ----
(***************************************************************************)
(* ApnaManager backend: the watchlist-match alert dispatch that runs       *)
(* after a guest registration.                                             *)
(*                                                                         *)
(* Two builds of the guest controller are in the repository and both are   *)
(* modelled; the variable `build` says which one is deployed:              *)
(*   "async" : checkWatchlistAndNotifyAsync + triggerWatchlistCheck        *)
(*             (src/src/config/socket.js, second half of the file)         *)
(*   "sync"  : checkWatchlistAndNotify (src/src/controllers/               *)
(*             guest.controller.js)                                        *)
(* A dispatch is split at its awaits: every store call is one step that    *)
(* either answers or rejects.  Room handling of registerGuest is not part  *)
(* of this specification: Spec covers requests that pass validation, from  *)
(* Guest.create onwards.                                                   *)
(***************************************************************************)
EXTENDS Integers, Sequences, FiniteSets, TLC

\* ------------------------------------------------------------------ bounds
NumGuests == 1      \* registerGuest calls (and so dispatches) in one run
NumOfficers == 2    \* Police accounts posted to station "s1"
NumAdmins == 2      \* RegionalAdmin accounts

NULL == "null"
\* the null document of the Guest and of the Watchlist collection
NoGuest == [idNumber |-> NULL, phone |-> NULL, name |-> NULL]
NoMatch == [value |-> NULL, type |-> NULL, reason |-> NULL, addedBy |-> -1,
            addedByModel |-> NULL]

GuestIds == 1..NumGuests
\* the guests of the runs with concurrent dispatches
NumPairs == 2
PairIds == 1..NumPairs
OfficerIds == 1..NumOfficers
AdminIds == 1..NumAdmins

\* ------------------------------------------------------------ schema enums
\* Watchlist model: addedByModel enum
WatchlistAddedByModels == {"Police", "RegionalAdmin"}
\* Watchlist model: type enum
WatchlistTypes == {"ID_Number", "Phone_Number"}
\* Alert model: creatorModel enum
AlertCreatorModels == {"Police", "Regional Admin", "System"}

\* ------------------------------------------------------------ stored data
\* The Police collection: every officer is posted to station "s1"; officer 0
\* was deleted (deleteUser) after flagging a value, so a reference to it
\* populates to null.
PoliceCollection == OfficerIds
DeletedOfficer == 0
RegionalAdminCollection == AdminIds

\* The PoliceStation collection: s1 serves two pin codes and has every
\* officer, s2 serves one pin code and has no officer.
PoliceStations ==
    { [id |-> "s1", name |-> "Central", city |-> "Mumbai",
       pincodes |-> {"400001", "400002"}],
      [id |-> "s2", name |-> "Harbour", city |-> "Thane",
       pincodes |-> {"400003"}] }

policeStationOf(officer) == "s1"

\* The Watchlist collection (value is unique): entries of both types and
\* of both addedByModel values, and one whose author was deleted.
WatchlistSchema ==
    [value : {"X1", "R2", "P5", "D7"}, type : WatchlistTypes,
     reason : {"fraud", "theft", "forgery", "assault"},
     addedBy : {DeletedOfficer} \cup OfficerIds \cup AdminIds,
     addedByModel : WatchlistAddedByModels]

WatchlistCollection ==
    { [value |-> "X1", type |-> "ID_Number", reason |-> "fraud",
       addedBy |-> 1, addedByModel |-> "Police"],
      [value |-> "R2", type |-> "ID_Number", reason |-> "theft",
       addedBy |-> 1, addedByModel |-> "RegionalAdmin"],
      [value |-> "P5", type |-> "Phone_Number", reason |-> "forgery",
       addedBy |-> 1, addedByModel |-> "Police"],
      [value |-> "D7", type |-> "Phone_Number", reason |-> "assault",
       addedBy |-> DeletedOfficer, addedByModel |-> "Police"] }
    \cap WatchlistSchema

\* what a registration request may carry, and what a hotel may have ("" is
\* the pin code of a hotel whose pinCode is empty or absent: both fail the
\* guard !hotelPincode)
IdNumbers == {"X1", "x1", "R2"}
Phones == {"P5", "D7", "000"}
PinCodes == {"", "400001", "400003", "999999"}

VARIABLES
    build,          \* which guest controller is deployed
    hotel,          \* the Hotel document of the registering hotel
    adminStatus,    \* RegionalAdmin.status of every admin
    ioReady,        \* socket.js: the module variable io is set
    guestsDb,       \* Guest collection: guest id -> document or NoGuest
    reg,            \* registerGuest calls: position and response status
    dsp,            \* dispatches: position and locals
    alerts,         \* Alert collection
    notifications,  \* Notification collection
    emitted,        \* events handed to the broadcaster, in any room
    hotelStored,    \* the Hotel document of the front desk exists
    rooms,          \* Hotel.rooms as stored: room number -> room document
    guestDocs,      \* Guest collection of the front desk: stay of each guest
    rq,             \* registerGuest calls of the front desk
    co,             \* checkoutGuest calls
    started,        \* how often each registerGuest call started a dispatch
    accessLogs,     \* AccessLog collection: the calls that logged
    mk,             \* createAlert calls of the police desk
    rs,             \* resolveAlert calls
    watchlist,      \* Watchlist collection under addWatchlistItem / delete
    wl,             \* addWatchlistItem calls
    blacklist,      \* Redis keys blacklist:<token> that were set
    now,            \* the time, in the unit of the token lifetime
    lo,             \* logoutUser calls
    pr,             \* requests that pass through protect
    account,        \* the reset fields and password of the one user
    delivered,      \* reset tokens whose e-mail was sent
    fp,             \* forgotPassword calls
    rp,             \* resetPassword calls
    personal,       \* the initSocket with personal rooms is deployed
    posting,        \* Police.policeStation of the connecting officers
    sk,             \* socket connections
    received,       \* events delivered: socket, type, station
    mr              \* markAsRead calls

\* the variables of the dispatch, and those of the front desk
dispatchVars == <<hotel, adminStatus, ioReady, guestsDb, reg, dsp,
                  notifications, emitted>>
roomVars == <<hotelStored, rooms, guestDocs, rq, co, started>>
\* those of the police desk (with alerts) and of the watchlist desk
caseVars == <<mk, rs>>
listVars == <<watchlist, wl>>

sessionVars == <<blacklist, now, lo, pr>>

resetVars == <<account, delivered, fp, rp>>

socketVars == <<personal, posting, sk, received>>

inboxVars == <<mr>>

vars == <<build, alerts, accessLogs, dispatchVars, roomVars, caseVars,
          listVars, sessionVars, resetVars, socketVars, inboxVars>>

\* what a step of each desk leaves alone
outsideDispatch == <<accessLogs, roomVars, caseVars, listVars, sessionVars,
                     resetVars, socketVars, inboxVars>>
outsideRooms == <<build, alerts, dispatchVars, caseVars, listVars,
                  sessionVars, resetVars, socketVars, inboxVars>>
outsideCases == <<build, dispatchVars, roomVars, listVars, sessionVars,
                  resetVars, socketVars, inboxVars>>
outsideList == <<build, alerts, accessLogs, dispatchVars, roomVars, caseVars,
                 sessionVars, resetVars, socketVars, inboxVars>>
outsideSessions == <<build, alerts, accessLogs, dispatchVars, roomVars,
                     caseVars, listVars, resetVars, socketVars, inboxVars>>
outsideResets == <<build, alerts, accessLogs, dispatchVars, roomVars,
                   caseVars, listVars, sessionVars, socketVars, inboxVars>>
outsideSockets == <<build, alerts, accessLogs, dispatchVars, roomVars,
                    caseVars, listVars, sessionVars, resetVars, inboxVars>>
\* markAsRead writes the Notification collection of the dispatch
outsideInbox == <<build, alerts, accessLogs, hotel, adminStatus, ioReady,
                  guestsDb, reg, dsp, emitted, roomVars, caseVars, listVars,
                  sessionVars, resetVars, socketVars>>

\* ---------------------------------------------------------- dispatch locals
NewDispatch ==
    [pc |-> "idle", match |-> NoMatch, stationOp |-> "none", alertOp |-> "none",
     station |-> NULL, officers |-> <<>>, admins |-> <<>>, log |-> {},
     fault |-> FALSE, raised |-> FALSE]

Log(d, level, what) == [d EXCEPT !.log = @ \cup {<<level, what>>}]

\* the outer try/catch of the dispatch: log and swallow
OuterCatchRethrow(d) ==
    [Log(d, "error", "Watchlist check failed") EXCEPT !.pc = "done", !.raised = TRUE]

OuterCatch(d) ==
    [Log(d, "error", "Watchlist check failed") EXCEPT !.pc = "done"]

\* the inner try/catch around getIO and the two emits
InnerCatch(d) ==
    [Log(d, "error", "Socket emit failed") EXCEPT !.pc = "done"]

\* --------------------------------------------------------------- the stores
\* equality of a stored watchlist value and a queried value: MongoDB
\* compares strings exactly (the variant compares them after toLowerCase)
toLowerCase(s) == CASE s = "X1" -> "x1"
                    [] s = "R2" -> "r2"
                    [] s = "P5" -> "p5"
                    [] s = "D7" -> "d7"
                    [] OTHER -> s

ValueEqualsIgnoreCase(stored, queried) == toLowerCase(stored) = toLowerCase(queried)

ValueEquals(stored, queried) == stored = queried

\* Watchlist.findOne({$or: [{value: idNumber}, {value: phone}]}): the
\* entries the query may return
WatchlistMatches(idNumber, phone) ==
    {e \in WatchlistCollection :
        ValueEquals(e.value, idNumber) \/ ValueEquals(e.value, phone)}

\* .populate('addedBy', 'username') finds the referenced account (otherwise
\* match.addedBy is null)
PopulateAddedBy(e) ==
    \/ e.addedByModel = "Police" /\ e.addedBy \in PoliceCollection
    \/ e.addedByModel = "RegionalAdmin" /\ e.addedBy \in RegionalAdminCollection

\* PoliceStation.findOne({pincodes: pin}): the station id or null
FindStation(pin) ==
    IF \E s \in PoliceStations : pin \in s.pincodes
    THEN (CHOOSE s \in PoliceStations : pin \in s.pincodes).id
    ELSE NULL

\* Police.find({policeStation: station}), in _id order
RECURSIVE SeqOfSet(_)
SeqOfSet(S) ==
    IF S = {} THEN <<>>
    ELSE LET m == CHOOSE x \in S : \A y \in S : x <= y
         IN <<m>> \o SeqOfSet(S \ {m})

FindOfficers(station) ==
    SeqOfSet({o \in PoliceCollection : policeStationOf(o) = station})

\* RegionalAdmin.find({status: 'Active'}), in _id order
FindActiveAdmins ==
    SeqOfSet({a \in RegionalAdminCollection : adminStatus[a] = "Active"})

\* the Alert document the dispatch asks Alert.create to store
AlertDraft(g, m) ==
    [id |-> <<"auto", g>>, guest |-> g,
     reason |-> <<"AUTOMATIC FLAG", m.reason, m.type>>,
     createdBy |-> m.addedBy, creatorModel |-> m.addedByModel,
     status |-> "Open"]

\* schema validation of Alert.create
AlertValid(a) == a.creatorModel \in AlertCreatorModels

\* the message of the notifications and of the station event
NotificationMessage(g, m) ==
    <<"WATCHLIST MATCH", guestsDb[g].name, hotel.hotelName, m.reason>>

OfficerNotification(g, d, o) ==
    [id |-> <<g, "Police", o>>, recipientStation |-> d.station,
     recipientUser |-> o, recipientModel |-> "Police",
     message |-> NotificationMessage(g, d.match), isRead |-> FALSE]

\* (the variant copies the station of the officer documents)
AdminNotificationTagged(g, d, a) ==
    [id |-> <<g, "RegionalAdmin", a>>, recipientStation |-> d.station,
     recipientUser |-> a, recipientModel |-> "RegionalAdmin",
     message |-> NotificationMessage(g, d.match), isRead |-> FALSE]

AdminNotification(g, d, a) ==
    [id |-> <<g, "RegionalAdmin", a>>, recipientStation |-> NULL,
     recipientUser |-> a, recipientModel |-> "RegionalAdmin",
     message |-> NotificationMessage(g, d.match), isRead |-> FALSE]

\* [...notificationDocs, ...adminNotifications]
NotificationDocs(g, d) ==
    [i \in 1..Len(d.officers) |-> OfficerNotification(g, d, d.officers[i])]
    \o [i \in 1..Len(d.admins) |-> AdminNotification(g, d, d.admins[i])]

\* the PoliceStation document of a station id
StationDoc(id) == CHOOSE st \in PoliceStations : st.id = id

\* stayDetails.roomNumber of a guest of the dispatch
RoomOf(g) == "101"

\* the alert with .populate('guest', 'primaryGuest.name idNumber
\* stayDetails.roomNumber')
PopulatedAlert(g, d) ==
    [AlertDraft(g, d.match) EXCEPT
        !.guest = [name |-> guestsDb[g].name, idNumber |-> guestsDb[g].idNumber,
                   roomNumber |-> RoomOf(g)]]

\* the payload of the event for the station room; a key the payload does
\* not have is NULL
StationEvent(g, d) ==
    [by |-> g, room |-> <<"station", d.station>>, event |-> "NEW_ALERT",
     type |-> "WATCHLIST_HIT", message |-> NotificationMessage(g, d.match),
     alert |-> PopulatedAlert(g, d), hotelName |-> hotel.hotelName,
     stationName |-> NULL]

\* the payload of the event for the admin room
AdminEvent(g, d) ==
    [by |-> g, room |-> <<"admin_global">>, event |-> "NEW_ALERT",
     type |-> "WATCHLIST_HIT_ADMIN",
     message |-> <<"CRITICAL: Watchlist hit in", StationDoc(d.station).city>>,
     alert |-> PopulatedAlert(g, d), hotelName |-> NULL,
     stationName |-> StationDoc(d.station).name]

\* the two events of the broadcast step, in the order they are emitted
\* (the variant emits to the admin room only when an active admin exists)
BroadcastEventsIfAdmins(g, d) ==
    <<StationEvent(g, d)>>
    \o (IF FindActiveAdmins = <<>> THEN <<>> ELSE <<AdminEvent(g, d)>>)

BroadcastEvents(g, d) == <<StationEvent(g, d), AdminEvent(g, d)>>

Range(s) == {s[i] : i \in 1..Len(s)}

\* ------------------------------------------------------------ the front desk
\* registerGuest in full and checkoutGuest, against the rooms of one hotel
NumStays == 2        \* registerGuest calls at the front desk in one run
NumCheckouts == 1    \* checkoutGuest calls in one run
NumLeaves == 2       \* checkoutGuest calls in one run of the checkout desk

StayIds == 1..NumStays
CheckoutIds == 1..NumCheckouts
LeaveIds == 1..NumLeaves

\* rooms.guestId: null
NoGuestId == 0

\* the rooms the hotel has: 101 is Vacant, 102 is Occupied by a guest who
\* registered before the run
RoomNumbers == {"101", "102"}
VacantRoom == [status |-> "Vacant", guestId |-> NoGuestId]
EarlierGuest == NumStays + 1
HotelRooms ==
    [n \in RoomNumbers |->
        IF n = "101" THEN VacantRoom
        ELSE [status |-> "Occupied", guestId |-> EarlierGuest]]

\* the null document of a stay
NoStay == [status |-> NULL, roomNumber |-> NULL, checkOut |-> NULL]

\* the registration requests a desk clerk may send: files is what req.files
\* holds ("none", "partial" = a required image is missing, "all")
RegisterRequests ==
    { [files |-> "none", roomNumber |-> "101"],
      [files |-> "partial", roomNumber |-> "101"],
      [files |-> "all", roomNumber |-> ""],
      [files |-> "all", roomNumber |-> "999"],
      [files |-> "all", roomNumber |-> "101"],
      [files |-> "all", roomNumber |-> "102"] }

NewRegistration ==
    [pc |-> "idle", status |-> 0, message |-> "", files |-> "none",
     roomNumber |-> "", snapshot |-> <<>>, roomOp |-> "none"]

NewCheckout ==
    [pc |-> "idle", status |-> 0, message |-> "", guest |-> NoGuestId,
     roomNumber |-> "", vacate |-> "none", logOp |-> "none",
     mailOp |-> "none"]

\* the front desk before any call
RoomsIdle ==
    /\ rooms = HotelRooms
    /\ guestDocs = [g \in StayIds |-> NoStay]
    /\ rq = [r \in StayIds |-> NewRegistration]
    /\ co = [c \in CheckoutIds |-> NewCheckout]
    /\ started = [r \in StayIds |-> 0]
    /\ accessLogs = {}

\* ----------------------------------------------------------- the police desk
\* createAlert and resolveAlert, next to the Alert.create of a dispatch
NumCreates == 1      \* createAlert calls in one run
NumResolves == 2     \* resolveAlert calls in one run

CreateIds == 1..NumCreates
ResolveIds == 1..NumResolves

\* the _id values an Alert may have, and the id that names no Alert
AlertIds == {<<"auto", g>> : g \in GuestIds} \cup {<<"manual", k>> : k \in CreateIds}
NoAlertId == <<"none", 0>>

\* what a createAlert request may carry in req.body
CreateAlertBodies ==
    [guestId : GuestIds, reason : {"", "suspicious"}]

NewCreateAlert ==
    [pc |-> "idle", status |-> 0, message |-> "", guestId |-> 0,
     reason |-> "", auditOp |-> "none"]

NewResolve ==
    [pc |-> "idle", status |-> 0, message |-> "", target |-> NoAlertId,
     seen |-> NULL]

\* the police desk before any call
CasesIdle ==
    /\ mk = [k \in CreateIds |-> NewCreateAlert]
    /\ rs = [v \in ResolveIds |-> NewResolve]

\* -------------------------------------------------------- the watchlist desk
\* addWatchlistItem and deleteWatchlistItem
NumAdds == 2         \* addWatchlistItem calls in one run

AddIds == 1..NumAdds

\* String.prototype.trim / the schema's trim: true, on the values a request
\* may carry
RawValues == {"", " ", "N9", " N9 ", "X1 "}

trim(raw) == CASE raw = " " -> ""
               [] raw = " N9 " -> "N9"
               [] raw = "X1 " -> "X1"
               [] OTHER -> raw

\* req.user.role of the accounts that may add
AddingRoles == {"Police", "Regional Admin"}

\* a stored entry is a Watchlist document with its _id
Stored(e, id) ==
    [id |-> id, value |-> e.value, type |-> e.type, reason |-> e.reason,
     addedBy |-> e.addedBy, addedByModel |-> e.addedByModel]

NewAdd ==
    [pc |-> "idle", status |-> 0, message |-> "", value |-> "",
     role |-> "Police"]

\* the watchlist desk before any call: the collection the dispatch reads
ListIdle ==
    /\ watchlist = {Stored(e, <<"seed", e.value>>) : e \in WatchlistCollection}
    /\ wl = [a \in AddIds |-> NewAdd]

\* --------------------------------------------------------- the session desk
\* logoutUser and the protect middleware, over the Redis blacklist
NumTokens == 2       \* JWTs that were issued by loginUser
NumLogouts == 1      \* logoutUser calls in one run
NumRequests == 2     \* requests through protect in one run
TokenExp == 2        \* decoded.exp of every token

TokenIds == 1..NumTokens
LogoutIds == 1..NumLogouts
RequestIds == 1..NumRequests

\* extractToken(req) found neither a cookie nor a Bearer header
NoToken == 0

NewLogout == [pc |-> "idle", status |-> 0, token |-> NoToken]

\* late: logoutUser had answered for the token when the request arrived
NewRequest ==
    [pc |-> "idle", status |-> 0, message |-> "", token |-> NoToken,
     late |-> FALSE]

\* the session desk before any call
SessionsIdle ==
    /\ blacklist = {}
    /\ now = 0
    /\ lo = [l \in LogoutIds |-> NewLogout]
    /\ pr = [p \in RequestIds |-> NewRequest]

\* ----------------------------------------------------------- the reset desk
\* forgotPassword and resetPassword of one user account
NumForgots == 2      \* forgotPassword calls in one run
NumResets == 1       \* resetPassword calls in one run

ForgotIds == 1..NumForgots
ResetIds == 1..NumResets

\* passwordResetToken is undefined; a call's token is named by the call
NoReset == 0

\* a token no forgotPassword call created
BogusToken == NumForgots + 1

\* req.body.email: missing, of the user, of nobody
Emails == {"", "hotel@test.com", "nonexistent@test.com"}

\* the reset fields of a user who asked for no reset
NoPending == [passwordResetToken |-> NoReset, passwordResetExpires |-> NULL]

NewForgot ==
    [pc |-> "idle", status |-> 0, message |-> "", before |-> NoPending]

NewReset == [pc |-> "idle", status |-> 0, message |-> "", token |-> NoReset]

\* the reset desk before any call
ResetsIdle ==
    /\ account = [reset |-> NoPending, password |-> "old"]
    /\ delivered = {}
    /\ fp = [f \in ForgotIds |-> NewForgot]
    /\ rp = [r \in ResetIds |-> NewReset]

\* ---------------------------------------------------------- the socket desk
\* initSocket: the handshake, the rooms, and the delivery of the two emits
NumSockets == 2      \* connections in one run

SocketIds == 1..NumSockets
StationIds == {st.id : st \in PoliceStations}

\* the accounts whose tokens are presented
ConnectingAccounts == {1}

\* socket.handshake.auth.token or the jwt cookie: none, one jwt.verify
\* rejects, or one it accepts with the role and id it was signed with
Handshakes ==
    {[token |-> "none", role |-> NULL, id |-> 0],
     [token |-> "invalid", role |-> "Police", id |-> 1]}
    \cup [token : {"valid"}, role : {"Police", "Regional Admin", "Hotel"},
          id : {DeletedOfficer} \cup ConnectingAccounts]

NewSocket ==
    [pc |-> "idle", token |-> "none", role |-> NULL, id |-> 0,
     station |-> NULL, rooms |-> {}]

\* the socket desk before any connection
SocketsIdle ==
    /\ personal = FALSE
    /\ posting = [o \in ConnectingAccounts |-> policeStationOf(o)]
    /\ sk = [c \in SocketIds |-> NewSocket]
    /\ received = {}

\* ------------------------------------------------------------------ the inbox
\* markAsRead on the notifications a dispatch has stored
NumMarks == 2        \* markAsRead calls in one run

MarkIds == 1..NumMarks

\* req.user of a call: the account's collection and _id
InboxUsers ==
    ({"Police"} \X OfficerIds) \cup ({"RegionalAdmin"} \X AdminIds)
        \cup {<<"Hotel", 1>>}

\* an _id that no Notification has
NoNotificationId == <<0, "none", 0>>

NewMark ==
    [pc |-> "idle", status |-> 0, message |-> "", id |-> NoNotificationId,
     user |-> <<"Hotel", 1>>]

\* the inbox before any call
InboxIdle == mr = [k \in MarkIds |-> NewMark]

\* --------------------------------------------------------------------- Init
Init ==
    /\ build \in {"async", "sync"}
    /\ hotel \in [hotelName : {"Grand"}, pinCode : PinCodes]
    /\ adminStatus \in [AdminIds -> {"Active", "Suspended"}]
    /\ ioReady = FALSE
    /\ guestsDb = [g \in GuestIds |-> NoGuest]
    /\ reg = [g \in GuestIds |-> [pc |-> "idle", status |-> 0]]
    /\ dsp = [g \in GuestIds |-> NewDispatch]
    /\ alerts = {}
    /\ notifications = {}
    /\ emitted = {}
    /\ hotelStored = TRUE
    /\ RoomsIdle
    /\ CasesIdle
    /\ ListIdle
    /\ InboxIdle
    /\ SocketsIdle
    /\ ResetsIdle
    /\ SessionsIdle

\* ------------------------------------------------------------ registerGuest
\* Guest.create: the request passed validation; ids are given in order
RegisterGuest_Create(g) ==
    /\ reg[g].pc = "idle"
    /\ \A h \in GuestIds : h < g => reg[h].pc # "idle"
    /\ \E idNumber \in IdNumbers, phone \in Phones :
          guestsDb' = [guestsDb EXCEPT ![g] =
              [idNumber |-> idNumber, phone |-> phone, name |-> "Asha"]]
    /\ reg' = [reg EXCEPT ![g].pc = "created"]
    /\ UNCHANGED outsideDispatch
    /\ UNCHANGED <<build, hotel, adminStatus, ioReady, dsp, alerts,
                   notifications, emitted>>

\* res.status(201).json(...) (the room update between Guest.create and the
\* response touches no state of this specification)
RegisterGuest_Respond(g) ==
    /\ reg[g].pc = "created"
    /\ reg' = [reg EXCEPT ![g] = [pc |-> "responded", status |-> 201]]
    /\ UNCHANGED outsideDispatch
    /\ UNCHANGED <<build, hotel, adminStatus, ioReady, guestsDb, dsp, alerts,
                   notifications, emitted>>

\* the statement order of registerGuest: the dispatch is handed off after
\* the response
CanTriggerEarly(g) == reg[g].pc \in {"created", "responded"}

CanTrigger(g) == reg[g].pc = "responded"

\* triggerWatchlistCheck(guest, hotel) / checkWatchlistAndNotify(guest, hotel)
\* without await: the dispatch is queued and registerGuest returns
RegisterGuest_Trigger(g) ==
    /\ CanTrigger(g)
    /\ dsp[g].pc = "idle"
    /\ reg' = [reg EXCEPT ![g].pc = "returned"]
    /\ dsp' = [dsp EXCEPT ![g].pc = "scheduled"]
    /\ UNCHANGED outsideDispatch
    /\ UNCHANGED <<build, hotel, adminStatus, ioReady, guestsDb, alerts,
                   notifications, emitted>>

\* server start: initSocket(server)
InitSocket ==
    /\ ~ioReady
    /\ ioReady' = TRUE
    /\ UNCHANGED outsideDispatch
    /\ UNCHANGED <<build, hotel, adminStatus, guestsDb, reg, dsp, alerts,
                   notifications, emitted>>

\* ------------------------------------------------------------- the dispatch
\* the code between the watchlist match and the next await
AfterMatch(d, m) ==
    LET d1 == Log([d EXCEPT !.match = m], "warn", "WATCHLIST MATCH")
    IN IF build = "async"
       THEN IF hotel.pinCode = ""
            THEN [Log(d1, "error", "no pincode") EXCEPT !.pc = "done"]
            ELSE IF ~PopulateAddedBy(m)
                 THEN OuterCatch(d1)     \* match.addedBy._id of null
                 ELSE [d1 EXCEPT !.pc = "par", !.stationOp = "pending",
                                 !.alertOp = "pending"]
       ELSE IF ~PopulateAddedBy(m)
            THEN OuterCatch(d1)
            ELSE [d1 EXCEPT !.pc = "alert", !.alertOp = "pending"]

\* await Watchlist.findOne(...).populate(...)
DispatchLookup(g) ==
    LET d == dsp[g] IN
    /\ d.pc = "scheduled"
    /\ \E ok \in BOOLEAN :
         IF ~ok
         THEN dsp' = [dsp EXCEPT ![g] = OuterCatch([d EXCEPT !.fault = TRUE])]
         ELSE LET M == WatchlistMatches(guestsDb[g].idNumber, guestsDb[g].phone)
              IN IF M = {}
                 THEN dsp' = [dsp EXCEPT ![g].pc = "done"]
                 ELSE \E m \in M : dsp' = [dsp EXCEPT ![g] = AfterMatch(d, m)]
    /\ UNCHANGED outsideDispatch
    /\ UNCHANGED <<build, hotel, adminStatus, ioReady, guestsDb, reg, alerts,
                   notifications, emitted>>

\* Promise.all([station lookup, Alert.create]) resolves when both answered
AlertJoinReadyStationOnly(d) == d.stationOp = "ok"

AlertJoinReady(d) == d.stationOp = "ok" /\ d.alertOp = "ok"

\* the code after the station is known
AfterStation(d) ==
    IF d.station = NULL
    THEN [Log(d, "warn", "no station") EXCEPT !.pc = "done"]
    ELSE [d EXCEPT !.pc = "fetch"]

\* async build: what the await of Promise.all does once one of its two
\* calls has answered; a call that answers after the dispatch has ended
\* changes nothing in the dispatch
AfterJoin(d) ==
    IF d.pc # "par" THEN d
    ELSE IF d.stationOp = "fail" \/ d.alertOp = "fail" THEN OuterCatch(d)
    ELSE IF AlertJoinReady(d) THEN AfterStation(d)
    ELSE d

\* the code after the pin-code guard of the sync build
AfterPopulate(d) ==
    IF hotel.pinCode = ""
    THEN [Log(d, "error", "no pincode") EXCEPT !.pc = "done"]
    ELSE [d EXCEPT !.pc = "station", !.stationOp = "pending"]

\* Alert.create({...})
AlertCreate(g) ==
    LET d == dsp[g]
        draft == AlertDraft(g, d.match)
    IN
    /\ d.alertOp = "pending"
    /\ \E ok \in BOOLEAN :
         LET stored == ok /\ AlertValid(draft)
             d1 == [d EXCEPT !.alertOp = IF stored THEN "ok" ELSE "fail",
                             !.fault = @ \/ ~ok]
         IN /\ alerts' = IF stored THEN alerts \cup {draft} ELSE alerts
            /\ dsp' = [dsp EXCEPT ![g] =
                  IF build = "async" THEN AfterJoin(d1)
                  ELSE IF stored THEN [d1 EXCEPT !.pc = "populate"]
                  ELSE OuterCatch(d1)]
    /\ UNCHANGED outsideDispatch
    /\ UNCHANGED <<build, hotel, adminStatus, ioReady, guestsDb, reg,
                   notifications, emitted>>

\* sync build: newAlert.populate('guest', ...) and the pin-code guard
AlertPopulate(g) ==
    LET d == dsp[g] IN
    /\ d.pc = "populate"
    /\ \E ok \in BOOLEAN :
         dsp' = [dsp EXCEPT ![g] =
                   IF ok THEN AfterPopulate(d)
                   ELSE OuterCatch([d EXCEPT !.fault = TRUE])]
    /\ UNCHANGED outsideDispatch
    /\ UNCHANGED <<build, hotel, adminStatus, ioReady, guestsDb, reg, alerts,
                   notifications, emitted>>

\* PoliceStation.findOne({pincodes: hotelPincode})
StationLookup(g) ==
    LET d == dsp[g] IN
    /\ d.stationOp = "pending"
    /\ \E ok \in BOOLEAN :
         LET d1 == IF ok
                   THEN [d EXCEPT !.stationOp = "ok",
                                  !.station = FindStation(hotel.pinCode)]
                   ELSE [d EXCEPT !.stationOp = "fail", !.fault = TRUE]
         IN dsp' = [dsp EXCEPT ![g] =
                  IF build = "async" THEN AfterJoin(d1)
                  ELSE IF ok THEN AfterStation(d1)
                  ELSE OuterCatch(d1)]
    /\ UNCHANGED outsideDispatch
    /\ UNCHANGED <<build, hotel, adminStatus, ioReady, guestsDb, reg, alerts,
                   notifications, emitted>>

\* the guard on the officer list
AfterOfficers(d, officers) ==
    IF Len(officers) = 0
    THEN [Log(d, "warn", "no officers") EXCEPT !.pc = "done"]
    ELSE [d EXCEPT !.officers = officers,
                   !.pc = IF build = "async" THEN "admins" ELSE "notify"]

\* Police.find({policeStation: station._id}) (async build: together with
\* the read that populates the alert)
FetchOfficers(g) ==
    LET d == dsp[g] IN
    /\ d.pc = "fetch"
    /\ \E ok \in BOOLEAN :
         dsp' = [dsp EXCEPT ![g] =
                   IF ok THEN AfterOfficers(d, FindOfficers(d.station))
                   ELSE OuterCatch([d EXCEPT !.fault = TRUE])]
    /\ UNCHANGED outsideDispatch
    /\ UNCHANGED <<build, hotel, adminStatus, ioReady, guestsDb, reg, alerts,
                   notifications, emitted>>

\* async build: RegionalAdmin.find({status: 'Active'})
FetchAdmins(g) ==
    LET d == dsp[g] IN
    /\ d.pc = "admins"
    /\ \E ok \in BOOLEAN :
         dsp' = [dsp EXCEPT ![g] =
                   IF ok THEN [d EXCEPT !.admins = FindActiveAdmins, !.pc = "notify"]
                   ELSE OuterCatch([d EXCEPT !.fault = TRUE])]
    /\ UNCHANGED outsideDispatch
    /\ UNCHANGED <<build, hotel, adminStatus, ioReady, guestsDb, reg, alerts,
                   notifications, emitted>>

\* the documents a notification write may leave stored: insertMany stores
\* a prefix of the batch and stops at the first error; Promise.all over
\* Notification.create stores any subset
WrittenSets(docs) ==
    IF build = "async"
    THEN {{docs[i] : i \in 1..k} : k \in 0..Len(docs)}
    ELSE SUBSET Range(docs)

\* a rejected notification write lands in the outer catch, which ends the
\* dispatch (the variant stays at the write and attempts it again)
NotifyRetried(d) == [d EXCEPT !.fault = TRUE]

NotifyFailed(d) == OuterCatch([d EXCEPT !.fault = TRUE])

\* Notification.insertMany([...]) / Promise.all(officers.map(Notification.create))
Notify(g) ==
    LET d == dsp[g]
        docs == NotificationDocs(g, d)
    IN
    /\ d.pc = "notify"
    /\ \E W \in WrittenSets(docs) :
         /\ notifications' = notifications \cup W
         /\ dsp' = [dsp EXCEPT ![g] =
               IF W = Range(docs)
               THEN [Log(d, "info", "notifications sent") EXCEPT !.pc = "emit"]
               ELSE NotifyFailed(d)]
    /\ UNCHANGED outsideDispatch
    /\ UNCHANGED <<build, hotel, adminStatus, ioReady, guestsDb, reg, alerts,
                   emitted>>

\* the statement order of the dispatch: the broadcast follows the
\* notification write
CanBroadcastEarly(d) == d.pc \in {"notify", "emit"}

CanBroadcast(d) == d.pc = "emit"

\* getIO(), io.to(stationRoom).emit(...), io.to('admin_global').emit(...)
Broadcast(g) ==
    LET d == dsp[g]
        events == BroadcastEvents(g, d)
    IN
    /\ CanBroadcast(d)
    /\ IF ~ioReady
       THEN /\ dsp' = [dsp EXCEPT ![g] = InnerCatch(d)]
            /\ emitted' = emitted
       ELSE \E k \in 0..Len(events) :
              /\ emitted' = emitted \cup {events[i] : i \in 1..k}
              /\ dsp' = [dsp EXCEPT ![g] =
                    IF k = Len(events) THEN [d EXCEPT !.pc = "done"]
                    ELSE InnerCatch([d EXCEPT !.fault = TRUE])]
    /\ UNCHANGED outsideDispatch
    /\ UNCHANGED <<build, hotel, adminStatus, ioReady, guestsDb, reg, alerts,
                   notifications>>

Next ==
    \/ InitSocket
    \/ \E g \in GuestIds : RegisterGuest_Create(g)
    \/ \E g \in GuestIds : RegisterGuest_Respond(g)
    \/ \E g \in GuestIds : RegisterGuest_Trigger(g)
    \/ \E g \in GuestIds : DispatchLookup(g)
    \/ \E g \in GuestIds : AlertCreate(g)
    \/ \E g \in GuestIds : AlertPopulate(g)
    \/ \E g \in GuestIds : StationLookup(g)
    \/ \E g \in GuestIds : FetchOfficers(g)
    \/ \E g \in GuestIds : FetchAdmins(g)
    \/ \E g \in GuestIds : Notify(g)
    \/ \E g \in GuestIds : Broadcast(g)

Spec == Init /\ [][Next]_vars

\* ------------------------------------------------------- what the claims use
AlertsOf(g) == {a \in alerts : a.guest = g}
NotificationsOf(g) == {n \in notifications : n.id[1] = g}
EmittedBy(g) == {e \in emitted : e.by = g}

\* the dispatch has ended and no store call of it is still in flight
Ended(g) ==
    /\ dsp[g].pc = "done"
    /\ dsp[g].alertOp # "pending"
    /\ dsp[g].stationOp # "pending"

\* no store call and no emit of the dispatch was made to fail
StoresAvailable(g) == ~dsp[g].fault

\* the guest's idNumber or phone equals a stored watchlist value
OnWatchlist(g) ==
    \E e \in WatchlistCollection :
        e.value = guestsDb[g].idNumber \/ e.value = guestsDb[g].phone

\* the matched entry has a living author and a creatorModel the Alert
\* schema accepts
DraftAccepted(g) ==
    /\ PopulateAddedBy(dsp[g].match)
    /\ AlertValid(AlertDraft(g, dsp[g].match))

\* the notifications a complete fan-out stores for the station of the hotel
ExpectedOfficerNotifications(g) ==
    LET d == [dsp[g] EXCEPT !.station = FindStation(hotel.pinCode)]
    IN {OfficerNotification(g, d, o) : o \in Range(FindOfficers(d.station))}

ExpectedAdminNotifications(g) ==
    {AdminNotification(g, dsp[g], a) : a \in Range(FindActiveAdmins)}

\* C1: no false negative: a dispatch on a guest whose idNumber or phone
\* equals a stored watchlist value, run with all stores available, ends
\* with exactly one Alert whose guest is that guest, whatever the entry's
\* type and addedByModel and whatever the hotel.
C1_NoFalseNegative ==
    \A g \in GuestIds :
        (Ended(g) /\ StoresAvailable(g) /\ OnWatchlist(g))
            => Cardinality(AlertsOf(g)) = 1

\* C2: no false positive: a guest whose idNumber and phone each equal no
\* stored watchlist value (exact, case-sensitive) gets no Alert, no
\* Notification and no broadcast emission.
C2_NoFalsePositive ==
    \A g \in GuestIds :
        (guestsDb[g] # NoGuest /\ ~OnWatchlist(g))
            => /\ AlertsOf(g) = {}
               /\ NotificationsOf(g) = {}
               /\ EmittedBy(g) = {}

\* a dispatch ran to its end on a guest whose idNumber differs from a stored
\* value only in case
C2_Witness ==
    \E g \in GuestIds :
        /\ dsp[g].pc = "done"
        /\ StoresAvailable(g)
        /\ guestsDb[g].idNumber = "x1"
        /\ ~OnWatchlist(g)

\* C3: total isolation: whichever step of a dispatch fails, nothing is
\* raised out of the dispatch, and registerGuest has answered 201 with the
\* stored guest exactly as when the dispatch succeeds.
C3_TotalIsolation ==
    \A g \in GuestIds :
        /\ ~dsp[g].raised
        /\ dsp[g].pc # "idle"
              => /\ reg[g] = [pc |-> "returned", status |-> 201]
                 /\ guestsDb[g] # NoGuest

\* a dispatch ended in its outer catch after a store call failed
C3_Witness ==
    \E g \in GuestIds :
        /\ dsp[g].pc = "done"
        /\ dsp[g].fault
        /\ <<"error", "Watchlist check failed">> \in dsp[g].log
        /\ reg[g].status = 201

\* C4: the 201 response is sent before the dispatch makes its first store
\* call (the watchlist lookup), and the response is sent while the dispatch
\* has not begun: registerGuest never waits for it.
C4_ResponseBeforeDispatch ==
    /\ [](\A g \in GuestIds :
             dsp[g].pc \notin {"idle", "scheduled"} => reg[g].status = 201)
    /\ [][\A g \in GuestIds :
             reg'[g].status # reg[g].status => dsp[g].pc = "idle"]_vars

\* a dispatch found a match and ran to its end after the response
C4_Witness ==
    \E g \in GuestIds :
        /\ reg[g].status = 201
        /\ dsp[g].pc = "done"
        /\ dsp[g].match # NoMatch

\* C5: every stored Notification of a dispatch was written when the Alert
\* of that dispatch was already stored, and a dispatch whose Alert write
\* failed has no Notification.
C5_AlertBeforeNotification ==
    /\ \A n \in notifications :
          \E a \in alerts : a.id = <<"auto", n.id[1]>>
    /\ \A g \in GuestIds :
          dsp[g].alertOp = "fail" => NotificationsOf(g) = {}

\* a dispatch has written notifications
C5_Witness ==
    \E g \in GuestIds :
        /\ NotificationsOf(g) # {}
        /\ dsp[g].alertOp = "ok"

\* C6: missing pin code: a dispatch on a matching guest at a hotel without
\* a pin code ends with exactly one Alert for the guest, no Notification,
\* no broadcast and an error-level log entry.  (Stated for matches whose
\* alert draft the Alert schema accepts.)
C6_MissingPinCode ==
    \A g \in GuestIds :
        (/\ Ended(g) /\ StoresAvailable(g)
         /\ dsp[g].match # NoMatch /\ DraftAccepted(g)
         /\ hotel.pinCode = "")
            => /\ Cardinality(AlertsOf(g)) = 1
               /\ NotificationsOf(g) = {}
               /\ EmittedBy(g) = {}
               /\ \E l \in dsp[g].log : l[1] = "error"

\* C7: graceful station miss: a dispatch on a matching guest at a hotel
\* whose pin code no station serves ends with no Notification and no
\* broadcast emission, and the Alert for the match exists.
C7_StationMiss ==
    \A g \in GuestIds :
        (/\ Ended(g) /\ StoresAvailable(g)
         /\ dsp[g].match # NoMatch
         /\ hotel.pinCode # "" /\ FindStation(hotel.pinCode) = NULL)
            => /\ NotificationsOf(g) = {}
               /\ EmittedBy(g) = {}
               /\ AlertsOf(g) # {}

\* C8: recipient completeness: with all stores available, a dispatch of
\* checkWatchlistAndNotifyAsync whose station resolves stores exactly one
\* station-tagged Notification per officer of the station and one
\* station-less Notification per active admin, and nothing else.  (Stated
\* for matches whose alert draft the Alert schema accepts.)
C8_RecipientCompleteness ==
    \A g \in GuestIds :
        (/\ build = "async"
         /\ Ended(g) /\ StoresAvailable(g)
         /\ dsp[g].match # NoMatch /\ DraftAccepted(g)
         /\ hotel.pinCode # "" /\ FindStation(hotel.pinCode) # NULL)
            => NotificationsOf(g) =
                  ExpectedOfficerNotifications(g) \cup ExpectedAdminNotifications(g)

\* C9: independent recipient lists: a resolved station without officers
\* and with an active admin still gets one Notification per active admin
\* stored; a station with officers and no active admin still gets one per
\* officer.  (Stated for matches whose alert draft the Alert schema accepts.)
C9_IndependentLists ==
    \A g \in GuestIds :
        (/\ Ended(g) /\ StoresAvailable(g)
         /\ dsp[g].match # NoMatch /\ DraftAccepted(g)
         /\ hotel.pinCode # "" /\ FindStation(hotel.pinCode) # NULL)
            => /\ (ExpectedOfficerNotifications(g) = {}
                      /\ ExpectedAdminNotifications(g) # {})
                     => \A a \in Range(FindActiveAdmins) :
                           Cardinality({n \in NotificationsOf(g) :
                               n.recipientModel = "RegionalAdmin"
                               /\ n.recipientUser = a}) = 1
               /\ (ExpectedOfficerNotifications(g) # {}
                      /\ ExpectedAdminNotifications(g) = {})
                     => \A o \in Range(FindOfficers(FindStation(hotel.pinCode))) :
                           Cardinality({n \in NotificationsOf(g) :
                               n.recipientModel = "Police"
                               /\ n.recipientUser = o}) = 1

\* C10: broadcast isolation: when getIO or an emit throws, the whole
\* Notification batch of the dispatch is stored (and stays stored), and
\* the dispatch ends without raising.
C10_BroadcastIsolation ==
    \A g \in GuestIds :
        <<"error", "Socket emit failed">> \in dsp[g].log
            => /\ Range(NotificationDocs(g, dsp[g])) # {}
               /\ Range(NotificationDocs(g, dsp[g])) \subseteq notifications
               /\ dsp[g].pc = "done"
               /\ ~dsp[g].raised

\* the broadcaster failed in a dispatch: the socket server was not
\* initialised, or an emit threw after the server was initialised
C10_Witness ==
    \E g \in GuestIds :
        /\ <<"error", "Socket emit failed">> \in dsp[g].log
        /\ ioReady => dsp[g].fault

\* the dispatch passed the notification write and ran its broadcast step
ReachedBroadcast(g) ==
    /\ dsp[g].pc = "done"
    /\ <<"info", "notifications sent">> \in dsp[g].log

\* getIO returned and no emit threw
BroadcasterWorked(g) == <<"error", "Socket emit failed">> \notin dsp[g].log

StationRoomEvents(g) ==
    {e \in EmittedBy(g) : e.room = <<"station", dsp[g].station>>}

AdminRoomEvents(g) == {e \in EmittedBy(g) : e.room = <<"admin_global">>}

\* C11 as stated: a dispatch that reaches the broadcast step emits exactly
\* one NEW_ALERT event to the room of the resolved station, exactly one to
\* the global admin room when an active admin exists, and none to the admin
\* room when the active-admin list is empty.
C11_AdminEventOnlyIfAdmins ==
    \A g \in GuestIds :
        (ReachedBroadcast(g) /\ BroadcasterWorked(g))
            => /\ Cardinality(StationRoomEvents(g)) = 1
               /\ Cardinality(AdminRoomEvents(g)) =
                     (IF FindActiveAdmins = <<>> THEN 0 ELSE 1)

\* C11 (amended): a dispatch that reaches the broadcast step with a working
\* broadcaster emits exactly one NEW_ALERT event to the room of the resolved
\* station and exactly one NEW_ALERT event to the global admin room, whether
\* or not an active admin exists; when getIO or an emit throws it emits no
\* admin-room event and at most the one station-room event; it never emits
\* anything else.
C11_BroadcastCount ==
    \A g \in GuestIds :
        /\ EmittedBy(g) = StationRoomEvents(g) \cup AdminRoomEvents(g)
        /\ \A e \in EmittedBy(g) : e.event = "NEW_ALERT"
        /\ ReachedBroadcast(g) =>
              IF BroadcasterWorked(g)
              THEN /\ Cardinality(StationRoomEvents(g)) = 1
                   /\ Cardinality(AdminRoomEvents(g)) = 1
              ELSE /\ Cardinality(StationRoomEvents(g)) <= 1
                   /\ AdminRoomEvents(g) = {}
        /\ ~ReachedBroadcast(g) => EmittedBy(g) = {}

\* a dispatch broadcast to both rooms while no admin is active
C11_Witness ==
    \E g \in GuestIds :
        /\ ReachedBroadcast(g)
        /\ BroadcasterWorked(g)
        /\ FindActiveAdmins = <<>>
        /\ AdminRoomEvents(g) # {}
        /\ StationRoomEvents(g) # {}

\* C13: every Notification a dispatch creates has recipientModel 'Police'
\* together with recipientStation equal to the resolved station, or
\* recipientModel 'RegionalAdmin' together with no recipientStation.
C13_NotificationShape ==
    \A n \in notifications :
        \/ /\ n.recipientModel = "Police"
           /\ n.recipientUser \in PoliceCollection
           /\ n.recipientStation # NULL
           /\ n.recipientStation = FindStation(hotel.pinCode)
           /\ n.recipientStation = dsp[n.id[1]].station
        \/ /\ n.recipientModel = "RegionalAdmin"
           /\ n.recipientUser \in RegionalAdminCollection
           /\ n.recipientStation = NULL

\* a dispatch stored a notification of each kind
C13_Witness ==
    /\ \E n \in notifications : n.recipientModel = "Police"
    /\ \E n \in notifications : n.recipientModel = "RegionalAdmin"

\* ===================================================== the front desk: steps
\* a thrown ApiError (or a rejected store call) ends the call: asyncHandler
\* hands it to the error middleware, which answers with its status
Throw(c, status, message) ==
    [c EXCEPT !.pc = "returned", !.status = status, !.message = message]

\* validateRoomAvailability(hotel, roomNumber) on the loaded hotel document:
\* the error it throws, or status 0 (the variant omits the occupancy check)
validateRoomExists(snapshot, roomNumber) ==
    IF roomNumber = ""
    THEN [status |-> 400, message |-> "room number is required"]
    ELSE IF roomNumber \notin DOMAIN snapshot
    THEN [status |-> 404, message |-> "room does not exist"]
    ELSE [status |-> 0, message |-> ""]

validateRoomAvailability(snapshot, roomNumber) ==
    IF roomNumber = ""
    THEN [status |-> 400, message |-> "room number is required"]
    ELSE IF roomNumber \notin DOMAIN snapshot
    THEN [status |-> 404, message |-> "room does not exist"]
    ELSE IF snapshot[roomNumber].status = "Occupied"
    THEN [status |-> 400, message |-> "room is already occupied"]
    ELSE [status |-> 0, message |-> ""]

\* the Guest document Guest.create stores for a call
StayDraft(r) ==
    [status |-> "Checked-In", roomNumber |-> rq[r].roomNumber, checkOut |-> NULL]

\* room.status = 'Occupied'; room.guestId = guest._id; hotel.save() writes
\* the modified paths of that one room
OccupiedBy(r) == [status |-> "Occupied", guestId |-> r]

\* triggerWatchlistCheck(guest, hotel) / checkWatchlistAndNotify(guest, hotel):
\* one dispatch is handed off (the variant hands it off twice)
triggerWatchlistCheckTwice(n) == n + 2

triggerWatchlistCheck(n) == n + 1

\* the rooms of the loaded hotel document that a call naming roomNumber
\* reads: hotel.rooms.find((r) => r.roomNumber === roomNumber)
LoadedRooms(roomNumber) ==
    [n \in {roomNumber} \cap RoomNumbers |-> rooms[n]]

\* a registerGuest call that throws: its locals are gone, its response stays
RegisterThrow(status, message) == Throw(NewRegistration, status, message)

\* await Hotel.findById(hotelUserId), then the check of req.files; the
\* request is recorded once the call goes on to read it
RegisterFindHotel(r) ==
    /\ rq[r].pc = "idle"
    /\ \A q \in StayIds : q < r => rq[q].pc # "idle"
    /\ \E req \in RegisterRequests, ok \in BOOLEAN :
         rq' = [rq EXCEPT ![r] =
               IF ~ok THEN RegisterThrow(500, "store call failed")
               ELSE IF ~hotelStored THEN RegisterThrow(404, "hotel user not found")
               ELSE IF req.files = "none" THEN RegisterThrow(400, "no files uploaded")
               ELSE [@ EXCEPT !.pc = "upload", !.files = req.files,
                              !.roomNumber = req.roomNumber,
                              !.snapshot = LoadedRooms(req.roomNumber)]]
    /\ UNCHANGED <<hotelStored, rooms, guestDocs, co, started, accessLogs>>
    /\ UNCHANGED outsideRooms

\* await Promise.all(uploads), then the image check and the room check, up
\* to the call of Guest.create
RegisterUpload(r) ==
    LET c == rq[r]
        room == validateRoomAvailability(c.snapshot, c.roomNumber)
    IN
    /\ c.pc = "upload"
    /\ \E ok \in BOOLEAN :
         rq' = [rq EXCEPT ![r] =
               IF ~ok THEN RegisterThrow(500, "failed to upload")
               ELSE IF c.files # "all" THEN RegisterThrow(400, "image upload failed")
               ELSE IF room.status # 0 THEN RegisterThrow(room.status, room.message)
               ELSE [c EXCEPT !.pc = "create", !.snapshot = <<>>]]
    /\ UNCHANGED <<hotelStored, rooms, guestDocs, co, started, accessLogs>>
    /\ UNCHANGED outsideRooms

\* await Guest.create({...}) and the code after it.  async build:
\* updateRoomStatus(...) is called and not awaited, the 201 is sent and the
\* dispatch is handed off, all before the room write can answer.  sync
\* build: the room is modified and hotel.save() is awaited.
RegisterCreateGuest(r) ==
    LET c == rq[r] IN
    /\ c.pc = "create"
    /\ \E ok \in BOOLEAN :
         IF ~ok
         THEN /\ rq' = [rq EXCEPT ![r] = RegisterThrow(500, "guest save error")]
              /\ UNCHANGED <<guestDocs, started>>
         ELSE /\ guestDocs' = [guestDocs EXCEPT ![r] = StayDraft(r)]
              /\ IF build = "async"
                 THEN /\ rq' = [rq EXCEPT ![r] =
                            [c EXCEPT !.pc = "returned", !.status = 201,
                                      !.message = "guest registered successfully",
                                      !.roomOp = "pending"]]
                      /\ started' = [started EXCEPT
                                        ![r] = triggerWatchlistCheck(@)]
                 ELSE /\ rq' = [rq EXCEPT ![r] =
                            [c EXCEPT !.pc = "saveRoom", !.roomOp = "pending"]]
                      /\ UNCHANGED started
    /\ UNCHANGED <<hotelStored, rooms, co, accessLogs>>
    /\ UNCHANGED outsideRooms

\* hotel.save() answers.  async build: only the .catch logs a failure.
\* sync build: the 201 and the dispatch follow a success, a failure is
\* thrown.
RegisterSaveRoom(r) ==
    LET c == rq[r] IN
    /\ c.roomOp = "pending"
    /\ \E ok \in BOOLEAN :
         /\ rooms' = IF ok THEN [rooms EXCEPT ![c.roomNumber] = OccupiedBy(r)]
                     ELSE rooms
         /\ LET c1 == [c EXCEPT !.roomOp = "settled"]
            IN IF build = "async"
               THEN /\ rq' = [rq EXCEPT ![r] = c1]
                    /\ UNCHANGED started
               ELSE IF ok
               THEN /\ rq' = [rq EXCEPT ![r] =
                          [c1 EXCEPT !.pc = "returned", !.status = 201,
                                     !.message = "guest registered successfully"]]
                    /\ started' = [started EXCEPT
                                      ![r] = triggerWatchlistCheck(@)]
               ELSE /\ rq' = [rq EXCEPT ![r] = Throw(c1, 500, "hotel save error")]
                    /\ UNCHANGED started
    /\ UNCHANGED <<hotelStored, guestDocs, co, accessLogs>>
    /\ UNCHANGED outsideRooms

\* ------------------------------------------------------------ checkoutGuest
\* guest.status = 'Checked-Out'; guest.stayDetails.checkOut = new Date()
CheckedOut(doc) == [doc EXCEPT !.status = "Checked-Out", !.checkOut = "date"]

\* if (guest.status === 'Checked-Out') throw new ApiError(400, ...) (the
\* variant never throws)
neverCheckedOut(doc) == FALSE

alreadyCheckedOut(doc) == doc.status = "Checked-Out"

\* await Guest.findById(guestId).populate('hotel'), then the two guards
CheckoutFindGuest(c) ==
    /\ co[c].pc = "idle"
    /\ \A b \in DOMAIN co : b < c => co[b].pc # "idle"
    /\ \E g \in StayIds, ok \in BOOLEAN :
         LET k == [co[c] EXCEPT !.guest = g]
         IN co' = [co EXCEPT ![c] =
               IF ~ok THEN Throw(k, 500, "store call failed")
               ELSE IF guestDocs[g] = NoStay THEN Throw(k, 404, "guest not found")
               ELSE IF alreadyCheckedOut(guestDocs[g])
               THEN Throw(k, 400, "already checked out")
               ELSE [k EXCEPT !.pc = "saveGuest",
                              !.roomNumber = guestDocs[g].roomNumber]]
    /\ UNCHANGED <<hotelStored, rooms, guestDocs, rq, started, accessLogs>>
    /\ UNCHANGED outsideRooms

\* await guest.save() and the code after it.  async build: the room is
\* vacated by a setImmediate callback, AccessLog.create is not awaited, and
\* the 200 is sent at once.  sync build: the room of the populated hotel is
\* modified and guest.hotel.save() is awaited.
CheckoutSaveGuest(c) ==
    LET k == co[c] IN
    /\ k.pc = "saveGuest"
    /\ \E ok \in BOOLEAN :
         IF ~ok
         THEN /\ co' = [co EXCEPT ![c] = Throw(k, 500, "guest save error")]
              /\ UNCHANGED guestDocs
         ELSE /\ guestDocs' = [guestDocs EXCEPT ![k.guest] = CheckedOut(@)]
              /\ co' = [co EXCEPT ![c] =
                    IF build = "async"
                    THEN [k EXCEPT !.pc = "returned", !.status = 200,
                                   !.message = "guest checked out successfully",
                                   !.vacate = IF hotelStored THEN "scheduled"
                                              ELSE "none",
                                   !.logOp = "pending",
                                   !.mailOp = "scheduled"]
                    ELSE IF hotelStored
                    THEN [k EXCEPT !.pc = "saveRoom", !.vacate = "found"]
                    ELSE [k EXCEPT !.pc = "log", !.logOp = "pending"]]
    /\ UNCHANGED <<hotelStored, rooms, rq, started, accessLogs>>
    /\ UNCHANGED outsideRooms

\* async build, in the setImmediate callback: Hotel.findById(guest.hotel._id)
CheckoutVacateFind(c) ==
    LET k == co[c] IN
    /\ k.vacate = "scheduled"
    /\ \E ok \in BOOLEAN :
         co' = [co EXCEPT ![c].vacate = IF ok THEN "found" ELSE "settled"]
    /\ UNCHANGED <<hotelStored, rooms, guestDocs, rq, started, accessLogs>>
    /\ UNCHANGED outsideRooms

\* hotel.save() of the vacated room answers: rooms[i].status = 'Vacant',
\* rooms[i].guestId = null.  A failure is logged (async build) or dropped
\* (sync build); the sync build goes on to await AccessLog.create.
CheckoutSaveRoom(c) ==
    LET k == co[c] IN
    /\ k.vacate = "found"
    /\ \E ok \in BOOLEAN :
         /\ rooms' = IF ok THEN [rooms EXCEPT ![k.roomNumber] = VacantRoom]
                     ELSE rooms
         /\ LET k1 == [k EXCEPT !.vacate = "settled"]
            IN co' = [co EXCEPT ![c] =
                  IF build = "async" THEN k1
                  ELSE [k1 EXCEPT !.pc = "log", !.logOp = "pending"]]
    /\ UNCHANGED <<hotelStored, guestDocs, rq, started, accessLogs>>
    /\ UNCHANGED outsideRooms

\* AccessLog.create({action: 'Guest Checkout', ...}) answers.  sync build:
\* the call is awaited and the 200 follows it.  async build: a failure is
\* only logged.
CheckoutAccessLog(c) ==
    LET k == co[c] IN
    /\ k.logOp = "pending"
    /\ \E ok \in BOOLEAN :
         /\ accessLogs' = IF ok THEN accessLogs \cup {<<"Guest Checkout", c>>}
                          ELSE accessLogs
         /\ LET k1 == [k EXCEPT !.logOp = "settled"]
            IN co' = [co EXCEPT ![c] =
                  IF build = "async" THEN k1
                  ELSE IF ok
                  THEN [k1 EXCEPT !.pc = "returned", !.status = 200,
                                  !.message = "guest checked out successfully"]
                  ELSE Throw(k1, 500, "access log error")]
    /\ UNCHANGED <<hotelStored, rooms, guestDocs, rq, started>>
    /\ UNCHANGED outsideRooms

\* async build, in the second setImmediate callback: generateGuestPDF and
\* sendCheckoutEmail; a failure is only logged
CheckoutSendEmail(c) ==
    LET k == co[c] IN
    /\ k.mailOp = "scheduled"
    /\ \E ok \in BOOLEAN :
         co' = [co EXCEPT ![c].mailOp = IF ok THEN "sent" ELSE "settled"]
    /\ UNCHANGED <<hotelStored, rooms, guestDocs, rq, started, accessLogs>>
    /\ UNCHANGED outsideRooms

\* the dispatch and the police desk before any call, for the runs of the
\* front desk
DispatchIdle ==
    /\ hotel = [hotelName |-> "Grand", pinCode |-> "400001"]
    /\ adminStatus = [a \in AdminIds |-> "Active"]
    /\ ioReady = TRUE
    /\ guestsDb = [g \in GuestIds |-> NoGuest]
    /\ reg = [g \in GuestIds |-> [pc |-> "idle", status |-> 0]]
    /\ dsp = [g \in GuestIds |-> NewDispatch]
    /\ notifications = {}
    /\ emitted = {}

RoomInit ==
    /\ build \in {"async", "sync"}
    /\ hotelStored \in BOOLEAN
    /\ RoomsIdle
    /\ DispatchIdle
    /\ alerts = {}
    /\ CasesIdle
    /\ ListIdle
    /\ InboxIdle
    /\ SocketsIdle
    /\ ResetsIdle
    /\ SessionsIdle

RoomNext ==
    \/ \E r \in StayIds : RegisterFindHotel(r)
    \/ \E r \in StayIds : RegisterUpload(r)
    \/ \E r \in StayIds : RegisterCreateGuest(r)
    \/ \E r \in StayIds : RegisterSaveRoom(r)
    \/ \E c \in CheckoutIds : CheckoutFindGuest(c)
    \/ \E c \in CheckoutIds : CheckoutSaveGuest(c)
    \/ \E c \in CheckoutIds : CheckoutVacateFind(c)
    \/ \E c \in CheckoutIds : CheckoutSaveRoom(c)
    \/ \E c \in CheckoutIds : CheckoutAccessLog(c)

RoomSpec == RoomInit /\ [][RoomNext]_vars

\* ------------------------------------------------------- the checkout desk
\* checkoutGuest calls, with the e-mail task, on a hotel whose guest 1 is
\* Checked-In in room 101 (the hotel and guest the checkout tests build)
LeaveInit ==
    /\ build \in {"async", "sync"}
    /\ hotelStored \in BOOLEAN
    /\ rooms = [HotelRooms EXCEPT !["101"] = OccupiedBy(1)]
    /\ guestDocs = [g \in StayIds |->
                       IF g = 1
                       THEN [status |-> "Checked-In", roomNumber |-> "101",
                             checkOut |-> NULL]
                       ELSE NoStay]
    /\ rq = [r \in StayIds |-> NewRegistration]
    /\ co = [c \in LeaveIds |-> NewCheckout]
    /\ started = [r \in StayIds |-> 0]
    /\ accessLogs = {}
    /\ DispatchIdle
    /\ alerts = {}
    /\ CasesIdle
    /\ ListIdle
    /\ InboxIdle
    /\ SocketsIdle
    /\ ResetsIdle
    /\ SessionsIdle

LeaveNext ==
    \/ \E c \in LeaveIds : CheckoutFindGuest(c)
    \/ \E c \in LeaveIds : CheckoutSaveGuest(c)
    \/ \E c \in LeaveIds : CheckoutVacateFind(c)
    \/ \E c \in LeaveIds : CheckoutSaveRoom(c)
    \/ \E c \in LeaveIds : CheckoutAccessLog(c)
    \/ \E c \in LeaveIds : CheckoutSendEmail(c)

LeaveSpec == LeaveInit /\ [][LeaveNext]_vars

\* ------------------------------------------------ claims about the front desk
\* the call was answered 201
Registered(r) == rq[r].status = 201

\* the call ended in an error response
RegisterFailed(r) == rq[r].pc = "returned" /\ rq[r].status # 201

\* C12: the dispatch is started exactly once for each registerGuest call
\* that creates a guest and answers 201, and never for a call that fails
\* (hotel not found, no files, missing image, invalid or occupied room,
\* guest save error).
C12_DispatchOncePerSuccess ==
    \A r \in StayIds :
        /\ Registered(r) => (guestDocs[r] # NoStay /\ started[r] = 1)
        /\ RegisterFailed(r) => started[r] = 0
        /\ ~Registered(r) => started[r] = 0

\* one call was answered 201 and started its dispatch, another stored its
\* guest and then failed without starting one
C12_Witness ==
    \E r, q \in StayIds :
        /\ Registered(r) /\ started[r] = 1
        /\ RegisterFailed(q) /\ guestDocs[q] # NoStay /\ started[q] = 0

\* C18 as stated: when registerGuest sends its 201, the chosen room is
\* stored Occupied with guestId equal to the new guest.
C18_RoomOccupiedAtResponse ==
    [][\A r \in StayIds :
          (~Registered(r) /\ rq'[r].status = 201)
              => rooms'[rq'[r].roomNumber] = OccupiedBy(r)]_vars

\* the call was refused by one of the three room checks
RoomRefused(r) ==
    rq[r].message \in {"room number is required", "room does not exist",
                       "room is already occupied"}

\* the call stored no Guest, wrote no room and started no dispatch
NoEffect(r) ==
    /\ guestDocs[r] = NoStay
    /\ rq[r].roomOp = "none"
    /\ started[r] = 0

\* C19: registerGuest with the room number missing, naming no room of the
\* hotel, or naming a room that is Occupied in the hotel document it loaded
\* fails with 400, 404 and 400 at its room check; each case creates no
\* Guest, changes no room and starts no dispatch.
C19_RoomRejections ==
    /\ [](\A r \in StayIds : RoomRefused(r) => NoEffect(r))
    /\ [][\A r \in StayIds :
             (/\ rq[r].pc = "upload" /\ rq'[r].pc # "upload"
              /\ rq[r].files = "all"
              /\ rq'[r].message # "failed to upload")
                => LET c == rq[r] IN
                   /\ c.roomNumber = ""
                         => (rq'[r].status = 400 /\ RoomRefused(r)')
                   /\ (c.roomNumber # "" /\ c.roomNumber \notin RoomNumbers)
                         => (rq'[r].status = 404 /\ RoomRefused(r)')
                   /\ (c.roomNumber \in RoomNumbers
                          /\ c.snapshot[c.roomNumber].status = "Occupied")
                         => (rq'[r].status = 400 /\ RoomRefused(r)')
                   /\ rooms' = rooms /\ guestDocs' = guestDocs
                   /\ started' = started]_vars

\* a call was refused an Occupied room while room 101 is stored Occupied by
\* the guest of another call
C19_Witness ==
    \E r, q \in StayIds :
        /\ rq[r].message = "room is already occupied"
        /\ rq[r].status = 400
        /\ NoEffect(r)
        /\ Registered(q)
        /\ rooms["101"] = OccupiedBy(q)

\* C20 as stated: when checkoutGuest sends its 200 for a Checked-In guest,
\* the guest is stored Checked-Out with a checkOut time and the guest's room
\* is stored Vacant with guestId null.
C20_VacantAtResponse ==
    [][\A c \in CheckoutIds :
          (co[c].status # 200 /\ co'[c].status = 200)
              => /\ guestDocs'[co'[c].guest].status = "Checked-Out"
                 /\ guestDocs'[co'[c].guest].checkOut # NULL
                 /\ rooms'[co'[c].roomNumber] = VacantRoom]_vars

\* ==================================================== the police desk: steps
\* the stored Alert with an _id, as a set of at most one document
AlertById(id) == {a \in alerts : a.id = id}

\* the Alert document createAlert asks Alert.create to store: the police
\* controller of the async build passes creatorModel 'Police', that of the
\* sync build passes none
ManualDraft(k) ==
    [id |-> <<"manual", k>>, guest |-> mk[k].guestId,
     reason |-> <<mk[k].reason>>, createdBy |-> 1,
     creatorModel |-> IF build = "async" THEN "Police" ELSE NULL,
     status |-> "Open"]

\* { status: 'Resolved' } / alert.status = 'Resolved' (the variant flips
\* the status)
Toggled(a) ==
    [a EXCEPT !.status = IF @ = "Open" THEN "Resolved" ELSE "Open"]

Resolved(a) == [a EXCEPT !.status = "Resolved"]

\* the status resolveAlert answers once it holds the Alert (the variant
\* refuses an Alert that is already Resolved, as checkoutGuest refuses a
\* guest that is already Checked-Out)
resolveStatusStrict(seen) == IF seen = "Resolved" THEN 400 ELSE 200

resolveStatus(seen) == 200

\* the Alert.create of a dispatch on a stored guest that matches the
\* watchlist (steps AlertCreate of the dispatch, without its other steps)
DispatchAlertCreate(g) ==
    /\ guestsDb[g] # NoGuest
    /\ AlertById(<<"auto", g>>) = {}
    /\ \E m \in WatchlistMatches(guestsDb[g].idNumber, guestsDb[g].phone) :
         /\ PopulateAddedBy(m)
         /\ AlertValid(AlertDraft(g, m))
         /\ alerts' = alerts \cup {AlertDraft(g, m)}
    /\ UNCHANGED <<accessLogs, mk, rs>>
    /\ UNCHANGED outsideCases

\* createAlert: the body check and await Guest.findById(guestId)
CreateAlertFindGuest(k) ==
    /\ mk[k].pc = "idle"
    /\ \A j \in CreateIds : j < k => mk[j].pc # "idle"
    /\ \E body \in CreateAlertBodies, ok \in BOOLEAN :
         mk' = [mk EXCEPT ![k] =
               IF body.reason = ""
               THEN Throw(@, 400, "guest id and reason are required")
               ELSE IF ~ok THEN Throw(@, 500, "store call failed")
               ELSE IF guestsDb[body.guestId] = NoGuest
               THEN Throw(@, 404, "guest not found")
               ELSE [@ EXCEPT !.pc = "create", !.guestId = body.guestId,
                              !.reason = body.reason]]
    /\ UNCHANGED <<alerts, accessLogs, rs>>
    /\ UNCHANGED outsideCases

\* await Alert.create({...}) and the code after it.  async build: the
\* audit entry is written without await and the 201 is sent.  sync build:
\* AccessLog.create is awaited before the 201.
CreateAlertStore(k) ==
    LET c == mk[k]
        draft == ManualDraft(k)
    IN
    /\ c.pc = "create"
    /\ \E ok \in BOOLEAN :
         IF ~ok
         THEN /\ mk' = [mk EXCEPT ![k] = Throw(c, 500, "store call failed")]
              /\ UNCHANGED alerts
         ELSE IF ~AlertValid(draft)
         THEN /\ mk' = [mk EXCEPT ![k] = Throw(c, 400, "validation error")]
              /\ UNCHANGED alerts
         ELSE /\ alerts' = alerts \cup {draft}
              /\ mk' = [mk EXCEPT ![k] =
                    IF build = "async"
                    THEN [c EXCEPT !.pc = "returned", !.status = 201,
                                   !.message = "alert created successfully",
                                   !.auditOp = "pending"]
                    ELSE [c EXCEPT !.pc = "audit", !.auditOp = "pending"]]
    /\ UNCHANGED <<accessLogs, rs>>
    /\ UNCHANGED outsideCases

\* AccessLog.create({action: 'Alert Created', ...}) answers
CreateAlertAudit(k) ==
    LET c == mk[k] IN
    /\ c.auditOp = "pending"
    /\ \E ok \in BOOLEAN :
         /\ accessLogs' = IF ok THEN accessLogs \cup {<<"Alert Created", k>>}
                          ELSE accessLogs
         /\ LET c1 == [c EXCEPT !.auditOp = "settled"]
            IN mk' = [mk EXCEPT ![k] =
                  IF build = "async" THEN c1
                  ELSE IF ok
                  THEN [c1 EXCEPT !.pc = "returned", !.status = 201,
                                  !.message = "alert created successfully"]
                  ELSE Throw(c1, 500, "store call failed")]
    /\ UNCHANGED <<alerts, rs>>
    /\ UNCHANGED outsideCases

\* resolveAlert.  async build: Alert.findByIdAndUpdate(id, {status:
\* 'Resolved'}) reads and writes in one store call.  sync build: await
\* Alert.findById(id), then alert.status = 'Resolved' and the call of save.
ResolveAlertFind(v) ==
    /\ rs[v].pc = "idle"
    /\ \A u \in ResolveIds : u < v => rs[u].pc # "idle"
    /\ \E id \in AlertIds, ok \in BOOLEAN :
         LET c == [rs[v] EXCEPT !.target = id]
             found == AlertById(id)
         IN IF ~ok
            THEN /\ rs' = [rs EXCEPT ![v] = Throw(c, 500, "store call failed")]
                 /\ UNCHANGED alerts
            ELSE IF found = {}
            THEN /\ rs' = [rs EXCEPT ![v] = Throw(c, 404, "alert not found")]
                 /\ UNCHANGED alerts
            ELSE LET a == CHOOSE a \in found : TRUE IN
                 IF build = "async"
                 THEN /\ alerts' = (alerts \ {a}) \cup {Resolved(a)}
                      /\ rs' = [rs EXCEPT ![v] =
                            [c EXCEPT !.pc = "returned", !.seen = a.status,
                                      !.status = resolveStatus(a.status),
                                      !.message = "alert resolved"]]
                 ELSE /\ rs' = [rs EXCEPT ![v] =
                            [c EXCEPT !.pc = "save", !.seen = a.status]]
                      /\ UNCHANGED alerts
    /\ UNCHANGED <<accessLogs, mk>>
    /\ UNCHANGED outsideCases

\* sync build: alert.save() answers; it writes the status only when the
\* assignment changed the loaded document
ResolveAlertSave(v) ==
    LET c == rs[v] IN
    /\ c.pc = "save"
    /\ \E ok \in BOOLEAN :
         IF ~ok
         THEN /\ rs' = [rs EXCEPT ![v] = Throw(c, 500, "store call failed")]
              /\ UNCHANGED alerts
         ELSE /\ alerts' = IF Resolved([status |-> c.seen]).status = c.seen
                           THEN alerts
                           ELSE {IF a.id = c.target THEN Resolved(a) ELSE a :
                                    a \in alerts}
              /\ rs' = [rs EXCEPT ![v] =
                    [c EXCEPT !.pc = "returned",
                              !.status = resolveStatus(c.seen),
                              !.message = "alert resolved"]]
    /\ UNCHANGED <<accessLogs, mk>>
    /\ UNCHANGED outsideCases

\* the police desk opens on a hotel whose guests are registered and whose
\* dispatches have not written their Alert yet
CaseInit ==
    /\ build \in {"async", "sync"}
    /\ hotel = [hotelName |-> "Grand", pinCode |-> "400001"]
    /\ adminStatus = [a \in AdminIds |-> "Active"]
    /\ ioReady = TRUE
    /\ guestsDb \in [GuestIds -> {NoGuest,
                        [idNumber |-> "X1", phone |-> "000", name |-> "Asha"]}]
    /\ reg = [g \in GuestIds |-> [pc |-> "idle", status |-> 0]]
    /\ dsp = [g \in GuestIds |-> NewDispatch]
    /\ alerts = {}
    /\ notifications = {}
    /\ emitted = {}
    /\ hotelStored = TRUE
    /\ RoomsIdle
    /\ CasesIdle
    /\ ListIdle
    /\ InboxIdle
    /\ SocketsIdle
    /\ ResetsIdle
    /\ SessionsIdle

CaseNext ==
    \/ \E g \in GuestIds : DispatchAlertCreate(g)
    \/ \E k \in CreateIds : CreateAlertFindGuest(k)
    \/ \E k \in CreateIds : CreateAlertStore(k)
    \/ \E k \in CreateIds : CreateAlertAudit(k)
    \/ \E v \in ResolveIds : ResolveAlertFind(v)
    \/ \E v \in ResolveIds : ResolveAlertSave(v)

CaseSpec == CaseInit /\ [][CaseNext]_vars

\* ------------------------------------------------ claims about the police desk
\* the call held the Alert and no store call of it was made to fail
ResolveCompleted(v) ==
    /\ rs[v].pc = "returned"
    /\ rs[v].seen # NULL
    /\ rs[v].message # "store call failed"

\* C14: idempotent resolve: resolveAlert on an Alert whose status is
\* already Resolved leaves it Resolved and answers 200, not an error; the
\* same holds for resolveAlert calls on one Alert that run concurrently
\* (each found the Alert still Open).
C14_IdempotentResolve ==
    \A v \in ResolveIds :
        ResolveCompleted(v)
            => /\ rs[v].status = 200
               /\ \A a \in AlertById(rs[v].target) : a.status = "Resolved"
               /\ AlertById(rs[v].target) # {}

\* one call resolved an Open Alert and a later call found it Resolved,
\* left it Resolved and was answered 200
C14_Witness ==
    \E u, v \in ResolveIds :
        /\ rs[u].target = rs[v].target
        /\ ResolveCompleted(u) /\ ResolveCompleted(v)
        /\ rs[u].seen = "Open"
        /\ rs[v].seen = "Resolved" /\ rs[v].status = 200
        /\ \A a \in AlertById(rs[v].target) : a.status = "Resolved"

\* C15: after any sequence of alert creations (createAlert or a dispatch)
\* and resolveAlert calls, every Alert starts with status Open and an Alert
\* that has been Resolved is never Open again.
C15_OpenThenResolved ==
    [][/\ \A a \in alerts' : AlertById(a.id) = {} => a.status = "Open"
       /\ \A b \in alerts :
             b.status = "Resolved"
                => \E a \in alerts' : a.id = b.id /\ a.status = "Resolved"
       /\ \A id \in AlertIds : Cardinality({a \in alerts' : a.id = id}) <= 1]_vars

\* an Alert of a dispatch and an Alert of createAlert are stored, one of
\* them Resolved
C15_Witness ==
    /\ \E a \in alerts : a.id[1] = "auto" /\ a.status = "Resolved"
    /\ \E a \in alerts : a.id[1] = "manual" /\ a.status = "Open"

\* ================================================= the watchlist desk: steps
\* Watchlist.findOne({ value })
FindByValue(value) == {e \in watchlist : e.value = value}

\* the unique index on value: the store accepts an insert of a value no
\* stored entry has (the variant is a collection without the index)
NoIndexAccepts(value) == TRUE

UniqueIndexAccepts(value) == FindByValue(value) = {}

\* the model name addWatchlistItem derives from req.user.role
ModelNameOf(role) == IF role = "Police" THEN "Police" ELSE "RegionalAdmin"

\* the document addWatchlistItem asks Watchlist.create to store
WatchlistDraft(a) ==
    [id |-> <<"added", a>>, value |-> trim(wl[a].value),
     type |-> "ID_Number", reason |-> "fraud", addedBy |-> 1,
     addedByModel |-> ModelNameOf(wl[a].role)]

\* addWatchlistItem: the body check and await Watchlist.findOne({value:
\* value.trim()})
AddWatchlistCheck(a) ==
    /\ wl[a].pc = "idle"
    /\ \A b \in AddIds : b < a => wl[b].pc # "idle"
    /\ \E raw \in RawValues, role \in AddingRoles, ok \in BOOLEAN :
         LET c == [wl[a] EXCEPT !.value = raw, !.role = role]
         IN wl' = [wl EXCEPT ![a] =
               IF raw = ""
               THEN Throw(c, 400, "value, type, and reason are all required")
               ELSE IF ~ok THEN Throw(c, 500, "store call failed")
               ELSE IF FindByValue(trim(raw)) # {}
               THEN Throw(c, 400, "already on the watchlist")
               ELSE [c EXCEPT !.pc = "create"]]
    /\ UNCHANGED watchlist
    /\ UNCHANGED outsideList

\* await Watchlist.create({...}): schema validation (value required after
\* trim), then the insert, which the unique index may refuse (E11000, a 400
\* of the error middleware)
AddWatchlistCreate(a) ==
    LET c == wl[a]
        draft == WatchlistDraft(a)
    IN
    /\ c.pc = "create"
    /\ \E ok \in BOOLEAN :
         IF ~ok
         THEN /\ wl' = [wl EXCEPT ![a] = Throw(c, 500, "store call failed")]
              /\ UNCHANGED watchlist
         ELSE IF draft.value = ""
         THEN /\ wl' = [wl EXCEPT ![a] = Throw(c, 400, "validation error")]
              /\ UNCHANGED watchlist
         ELSE IF ~UniqueIndexAccepts(draft.value)
         THEN /\ wl' = [wl EXCEPT ![a] = Throw(c, 400, "duplicate field value")]
              /\ UNCHANGED watchlist
         ELSE /\ watchlist' = watchlist \cup {draft}
              /\ wl' = [wl EXCEPT ![a].pc = "populate"]
    /\ UNCHANGED outsideList

\* await newItem.populate('addedBy', 'username'), then the 201
AddWatchlistPopulate(a) ==
    LET c == wl[a] IN
    /\ c.pc = "populate"
    /\ \E ok \in BOOLEAN :
         wl' = [wl EXCEPT ![a] =
               IF ok THEN [c EXCEPT !.pc = "returned", !.status = 201,
                                    !.message = "item added to watchlist"]
               ELSE Throw(c, 500, "store call failed")]
    /\ UNCHANGED watchlist
    /\ UNCHANGED outsideList

\* deleteWatchlistItem: Watchlist.findByIdAndDelete(req.params.id) on a
\* stored entry (an id that names no entry is answered 404 and changes
\* nothing)
DeleteWatchlistItem ==
    /\ \E e \in watchlist : watchlist' = watchlist \ {e}
    /\ UNCHANGED wl
    /\ UNCHANGED outsideList

ListInit ==
    /\ build = "async"
    /\ hotelStored = TRUE
    /\ RoomsIdle
    /\ DispatchIdle
    /\ alerts = {}
    /\ CasesIdle
    /\ ListIdle
    /\ InboxIdle
    /\ SocketsIdle
    /\ ResetsIdle
    /\ SessionsIdle

ListNext ==
    \/ \E a \in AddIds : AddWatchlistCheck(a)
    \/ \E a \in AddIds : AddWatchlistCreate(a)
    \/ \E a \in AddIds : AddWatchlistPopulate(a)
    \/ DeleteWatchlistItem

ListSpec == ListInit /\ [][ListNext]_vars

\* C16: after any interleaving of addWatchlistItem and deleteWatchlistItem
\* calls, including two concurrent adds of the same trimmed value that
\* both pass the existence check, no two stored watchlist entries have the
\* same value.
C16_UniqueValues ==
    \A e, f \in watchlist : e.value = f.value => e = f

\* two adds of one trimmed value both passed the existence check; one was
\* stored and the other was refused by the index
C16_Witness ==
    \E a, b \in AddIds :
        /\ a # b
        /\ trim(wl[a].value) = trim(wl[b].value)
        /\ wl[a].pc \in {"populate", "returned"}
        /\ wl[a].status \in {0, 201}
        /\ wl[b].message = "duplicate field value"
        /\ Cardinality(FindByValue(trim(wl[a].value))) = 1

\* ============================================== the dispatch under fairness
\* The event loop runs every queued callback and every continuation of an
\* answered await, and every store call answers (with a result or with a
\* rejection): each step of registerGuest after Guest.create and each step
\* of a dispatch is taken once it stays possible.  No fairness is stated
\* for the arrival of a request nor for the start of the socket server.
Fairness ==
    \A g \in GuestIds :
        /\ WF_vars(RegisterGuest_Respond(g))
        /\ WF_vars(RegisterGuest_Trigger(g))
        /\ WF_vars(DispatchLookup(g))
        /\ WF_vars(AlertCreate(g))
        /\ WF_vars(AlertPopulate(g))
        /\ WF_vars(StationLookup(g))
        /\ WF_vars(FetchOfficers(g))
        /\ WF_vars(FetchAdmins(g))
        /\ WF_vars(Notify(g))
        /\ WF_vars(Broadcast(g))

LiveSpec == Init /\ [][Next]_vars /\ Fairness

\* registerGuest has answered 201 for a guest whose idNumber equals a
\* watchlist value, at a hotel whose pin code a station with an officer
\* serves; the socket server is up and the dispatch has not begun
AlertPathDue(g) ==
    /\ reg[g].status = 201
    /\ dsp[g].pc \in {"idle", "scheduled"}
    /\ ioReady
    /\ \E e \in WatchlistCollection : e.value = guestsDb[g].idNumber
    /\ FindStation(hotel.pinCode) # NULL
    /\ FindOfficers(FindStation(hotel.pinCode)) # <<>>

\* an Open Alert with an AUTOMATIC FLAG reason, a WATCHLIST MATCH
\* Notification for each officer of the station, and an emit to a room
AlertPathDone(g) ==
    /\ \E a \in AlertsOf(g) : a.status = "Open" /\ a.reason[1] = "AUTOMATIC FLAG"
    /\ \A o \in Range(FindOfficers(FindStation(hotel.pinCode))) :
          \E n \in NotificationsOf(g) :
              /\ n.recipientUser = o
              /\ n.recipientModel = "Police"
              /\ n.message[1] = "WATCHLIST MATCH"
    /\ EmittedBy(g) # {}

\* C17: liveness of the alert path: under fair scheduling and with every
\* store call succeeding, after registerGuest answers 201 for a guest whose
\* idNumber equals a watchlist value, at a hotel whose pin code is served by
\* a station with at least one officer, eventually an Open Alert with an
\* 'AUTOMATIC FLAG' reason exists, a 'WATCHLIST MATCH' Notification exists
\* for each officer of that station, and the broadcaster has been asked to
\* emit to a room.
C17_AlertPathLiveness ==
    \A g \in GuestIds :
        [](AlertPathDue(g) => <>(AlertPathDone(g) \/ dsp[g].fault))

\* -------------------------------------------- claims about the checkout desk
\* the call was refused because its guest was already Checked-Out
RefusedCheckedOut(c) == co[c].message = "already checked out"

\* C21: a guest's status moves only from Checked-In to Checked-Out, and
\* checkoutGuest on a guest already Checked-Out fails with 400, changes
\* neither the guest record nor any room, writes no access log and sends no
\* e-mail.
C21_CheckoutOnce ==
    /\ [](\A c \in DOMAIN co :
            RefusedCheckedOut(c)
                => /\ co[c].status = 400 /\ co[c].pc = "returned"
                   /\ co[c].vacate = "none"
                   /\ co[c].logOp = "none"
                   /\ co[c].mailOp = "none"
                   /\ <<"Guest Checkout", c>> \notin accessLogs)
    /\ [][/\ \A g \in StayIds :
               (guestDocs[g] # NoStay /\ guestDocs'[g] # guestDocs[g])
                   => /\ guestDocs[g].status = "Checked-In"
                      /\ guestDocs'[g].status = "Checked-Out"
          /\ \A c \in DOMAIN co :
               (/\ co[c].pc = "idle" /\ co'[c].pc # "idle"
                /\ co'[c].message # "store call failed"
                /\ guestDocs[co'[c].guest].status = "Checked-Out")
                   => /\ RefusedCheckedOut(c)'
                      /\ guestDocs' = guestDocs /\ rooms' = rooms
                      /\ accessLogs' = accessLogs]_vars

\* a guest was checked out by one call, and a later call for the same
\* guest was refused with 400
C21_Witness ==
    \E b, c \in DOMAIN co :
        /\ co[b].status = 200 /\ co[b].guest = co[c].guest
        /\ guestDocs[co[b].guest].status = "Checked-Out"
        /\ RefusedCheckedOut(c) /\ co[c].status = 400

\* ========================================================= the session desk
\* jwt.verify(token, secret) accepts a token before its exp
TokenValid(t) == now < TokenExp

\* redisClient.get('blacklist:' + token): the key was set with EX equal to
\* the rest of the token's lifetime
isBlacklisted(t) == t \in blacklist /\ now < TokenExp

\* logoutUser: await blacklistToken(token), which catches and logs every
\* error of redisClient.set, then the cookie is cleared and 200 is sent
LogoutUser(l) ==
    /\ lo[l].pc = "idle"
    /\ \A k \in LogoutIds : k < l => lo[k].pc # "idle"
    /\ \E t \in TokenIds \cup {NoToken}, ok \in BOOLEAN :
         /\ blacklist' = IF t # NoToken /\ TokenExp - now > 0 /\ ok
                          THEN blacklist \cup {t}
                          ELSE blacklist
         /\ lo' = [lo EXCEPT ![l] = [pc |-> "returned", status |-> 200,
                                      token |-> t]]
    /\ UNCHANGED <<now, pr>>
    /\ UNCHANGED outsideSessions

\* protect up to jwt.verify: the token is read, the blacklist is asked, the
\* token is verified; an error of the Redis call lands in the catch
ProtectVerify(p) ==
    /\ pr[p].pc = "idle"
    /\ \A k \in RequestIds : k < p => pr[k].pc # "idle"
    /\ \E t \in TokenIds \cup {NoToken}, ok \in BOOLEAN :
         LET c == [pr[p] EXCEPT
                      !.token = t,
                      !.late = \E l \in LogoutIds :
                                  /\ lo[l].pc = "returned"
                                  /\ lo[l].status = 200
                                  /\ lo[l].token = t /\ t # NoToken]
         IN pr' = [pr EXCEPT ![p] =
               IF t = NoToken
               THEN Throw(c, 401, "not authorized, no token provided")
               ELSE IF ~ok THEN Throw(c, 401, "not authorized, token failed")
               ELSE IF isBlacklisted(t) THEN Throw(c, 401, "session expired")
               ELSE IF ~TokenValid(t) THEN Throw(c, 401, "token expired")
               ELSE [c EXCEPT !.pc = "findUser"]]
    /\ UNCHANGED <<blacklist, now, lo>>
    /\ UNCHANGED outsideSessions

\* req.user = await User.findById(decoded.id); next() hands the request to
\* its route (status 200 here)
ProtectFindUser(p) ==
    /\ pr[p].pc = "findUser"
    /\ \E ok \in BOOLEAN :
         pr' = [pr EXCEPT ![p] =
               IF ok THEN [@ EXCEPT !.pc = "returned", !.status = 200,
                                    !.message = "next"]
               ELSE Throw(@, 401, "not authorized, token failed")]
    /\ UNCHANGED <<blacklist, now, lo>>
    /\ UNCHANGED outsideSessions

\* time passes, up to the end of the tokens' lifetime
Tick ==
    /\ now < TokenExp
    /\ now' = now + 1
    /\ UNCHANGED <<blacklist, lo, pr>>
    /\ UNCHANGED outsideSessions

SessionInit ==
    /\ build = "async"
    /\ hotelStored = TRUE
    /\ RoomsIdle
    /\ DispatchIdle
    /\ alerts = {}
    /\ CasesIdle
    /\ ListIdle
    /\ InboxIdle
    /\ SocketsIdle
    /\ ResetsIdle
    /\ SessionsIdle

SessionNext ==
    \/ \E l \in LogoutIds : LogoutUser(l)
    \/ \E p \in RequestIds : ProtectVerify(p)
    \/ \E p \in RequestIds : ProtectFindUser(p)
    \/ Tick

SessionSpec == SessionInit /\ [][SessionNext]_vars

\* C22 as stated: after logoutUser has answered success for a token, every
\* later request that presents the same token is rejected with 401 by
\* protect, also when the blacklist store was failing at logout time.
C22_LogoutInvalidates ==
    \A p \in RequestIds :
        (pr[p].late /\ pr[p].pc = "returned") => pr[p].status = 401

\* =========================================================== the reset desk
\* user.createPasswordResetToken(): the hashed token and its ten minutes
PendingReset(f) ==
    [passwordResetToken |-> f, passwordResetExpires |-> "in ten minutes"]

\* forgotPassword up to createPasswordResetToken: the e-mail check and
\* findUserByEmail; the user document is loaded as it is stored
ForgotFindUser(f) ==
    /\ fp[f].pc = "idle"
    /\ \A k \in ForgotIds : k < f => fp[k].pc # "idle"
    /\ \E email \in Emails, ok \in BOOLEAN :
         fp' = [fp EXCEPT ![f] =
               IF email = ""
               THEN Throw(@, 400, "please provide an email address")
               ELSE IF ~ok THEN Throw(@, 500, "store call failed")
               ELSE IF email # "hotel@test.com"
               THEN Throw(@, 200, "if an account exists, a link has been sent")
               ELSE [@ EXCEPT !.pc = "save", !.before = account.reset]]
    /\ UNCHANGED <<account, delivered, rp>>
    /\ UNCHANGED outsideResets

\* await user.save({validateBeforeSave: false}) writes the two reset fields
ForgotSaveToken(f) ==
    /\ fp[f].pc = "save"
    /\ \E ok \in BOOLEAN :
         IF ok
         THEN /\ account' = [account EXCEPT !.reset = PendingReset(f)]
              /\ fp' = [fp EXCEPT ![f].pc = "mail"]
         ELSE /\ fp' = [fp EXCEPT ![f] = Throw(@, 500, "store call failed")]
              /\ UNCHANGED account
    /\ UNCHANGED <<delivered, rp>>
    /\ UNCHANGED outsideResets

\* await sendPasswordResetEmail(...): sent and 200, or the catch is entered
ForgotSendMail(f) ==
    /\ fp[f].pc = "mail"
    /\ \E ok \in BOOLEAN :
         IF ok
         THEN /\ delivered' = delivered \cup {f}
              /\ fp' = [fp EXCEPT ![f] =
                    Throw(@, 200, "if an account exists, a link has been sent")]
         ELSE /\ fp' = [fp EXCEPT ![f].pc = "rollback"]
              /\ UNCHANGED delivered
    /\ UNCHANGED <<account, rp>>
    /\ UNCHANGED outsideResets

\* in the catch: the two fields of the loaded document are set undefined,
\* await user.save(...) unsets them in the store, ApiError(500) is thrown
ForgotRollback(f) ==
    /\ fp[f].pc = "rollback"
    /\ \E ok \in BOOLEAN :
         IF ok
         THEN /\ account' = [account EXCEPT !.reset = NoPending]
              /\ fp' = [fp EXCEPT ![f] =
                    Throw(@, 500, "failed to send password reset email")]
         ELSE /\ fp' = [fp EXCEPT ![f] = Throw(@, 500, "store call failed")]
              /\ UNCHANGED account
    /\ UNCHANGED <<delivered, rp>>
    /\ UNCHANGED outsideResets

\* findUserByResetToken(hashedToken): the user whose stored token it is
findUserByResetToken(t) ==
    /\ account.reset.passwordResetToken = t
    /\ account.reset.passwordResetExpires # NULL

\* resetPassword up to the save: the two validations and the lookup
ResetFindUser(r) ==
    /\ rp[r].pc = "idle"
    /\ \A k \in ResetIds : k < r => rp[k].pc # "idle"
    /\ \E t \in ForgotIds \cup {NoReset, BogusToken},
          newPassword \in {"12345", "123456"}, ok \in BOOLEAN :
         LET c == [rp[r] EXCEPT !.token = t]
         IN rp' = [rp EXCEPT ![r] =
               IF t = NoReset
               THEN Throw(c, 400, "reset token and new password are required")
               ELSE IF newPassword = "12345"
               THEN Throw(c, 400, "password must be at least 6 characters")
               ELSE IF ~ok THEN Throw(c, 500, "store call failed")
               ELSE IF ~findUserByResetToken(t)
               THEN Throw(c, 400, "reset token is invalid or has expired")
               ELSE [c EXCEPT !.pc = "save"]]
    /\ UNCHANGED <<account, delivered, fp>>
    /\ UNCHANGED outsideResets

\* user.password = newPassword, the reset fields undefined, await user.save()
ResetSave(r) ==
    /\ rp[r].pc = "save"
    /\ \E ok \in BOOLEAN :
         IF ok
         THEN /\ account' = [reset |-> NoPending, password |-> "new"]
              /\ rp' = [rp EXCEPT ![r] =
                    Throw(@, 200, "password reset successfully")]
         ELSE /\ rp' = [rp EXCEPT ![r] = Throw(@, 500, "store call failed")]
              /\ UNCHANGED account
    /\ UNCHANGED <<delivered, fp>>
    /\ UNCHANGED outsideResets

ResetInit ==
    /\ build = "async"
    /\ hotelStored = TRUE
    /\ RoomsIdle
    /\ DispatchIdle
    /\ alerts = {}
    /\ CasesIdle
    /\ ListIdle
    /\ InboxIdle
    /\ SocketsIdle
    /\ SessionsIdle
    /\ ResetsIdle

ResetNext ==
    \/ \E f \in ForgotIds : ForgotFindUser(f)
    \/ \E f \in ForgotIds : ForgotSaveToken(f)
    \/ \E f \in ForgotIds : ForgotSendMail(f)
    \/ \E f \in ForgotIds : ForgotRollback(f)
    \/ \E r \in ResetIds : ResetFindUser(r)
    \/ \E r \in ResetIds : ResetSave(r)

ResetSpec == ResetInit /\ [][ResetNext]_vars

\* C23 as stated: when sending the reset e-mail fails, forgotPassword ends
\* with the user's passwordResetToken and passwordResetExpires cleared, the
\* user record as before the request and the response 500; and a reset
\* token that was never delivered cannot be used by resetPassword.
C23_RollbackOnMailFailure ==
    /\ [][\A f \in ForgotIds :
             (fp[f].pc = "rollback" /\ fp'[f].pc = "returned")
                 => /\ fp'[f].status = 500
                    /\ account'.reset = NoPending
                    /\ account'.reset = fp[f].before]_vars
    /\ [](\A r \in ResetIds :
             rp[r].status = 200 => rp[r].token \in delivered)

\* ------------------------------------------ claims about the dispatch order
\* the station lookup of the dispatch has been started
StationLookupStarted(g) == dsp[g].stationOp # "none"

\* the notification write of the dispatch has stored its whole batch
NotifyCompleted(g) ==
    /\ dsp[g].officers # <<>>
    /\ Range(NotificationDocs(g, dsp[g])) \subseteq notifications

\* C24 as stated: within one dispatch the station lookup does not start
\* before the Alert write has completed successfully, the recipient fetch
\* does not start before the station is resolved, the Notification write
\* does not start before the recipients are fetched, and no broadcast is
\* emitted before the Notification write has completed.
C24_StrictSequence ==
    \A g \in GuestIds :
        /\ StationLookupStarted(g) => dsp[g].alertOp = "ok"
        /\ dsp[g].pc = "fetch"
              => (dsp[g].stationOp = "ok" /\ dsp[g].station # NULL)
        /\ dsp[g].pc = "notify" => dsp[g].officers # <<>>
        /\ EmittedBy(g) # {} => NotifyCompleted(g)

\* C25: when the Notification batch write fails after the Alert was
\* written, the dispatch ends with the Alert still stored with status Open,
\* attempts the Notification write no second time, emits no broadcast, and
\* raises nothing to its caller.
C25_PartialSuccessLeft ==
    [][\A g \in GuestIds :
          /\ (/\ dsp[g].pc = "notify" /\ dsp'[g].pc # "emit"
               /\ dsp'[g] # dsp[g])
                 => /\ dsp'[g].pc = "done"
                    /\ ~dsp'[g].raised
                    /\ \E a \in AlertsOf(g)' : a.status = "Open"
                    /\ EmittedBy(g)' = {}
          /\ dsp[g].pc = "done"
                 => /\ dsp'[g].pc = "done"
                    /\ ~dsp'[g].raised
                    /\ NotificationsOf(g)' = NotificationsOf(g)
                    /\ EmittedBy(g)' = EmittedBy(g)
                    /\ AlertsOf(g) \subseteq AlertsOf(g)']_vars

\* a dispatch wrote its Alert and a part of its Notification batch, and
\* ended without a broadcast and without raising
C25_Witness ==
    \E g \in GuestIds :
        /\ dsp[g].pc = "done" /\ dsp[g].fault /\ ~dsp[g].raised
        /\ \E a \in AlertsOf(g) : a.status = "Open"
        /\ NotificationsOf(g) # {}
        /\ ~NotifyCompleted(g)
        /\ EmittedBy(g) = {}

\* ================================================== concurrent dispatches
\* the guests that match the watchlist by their idNumber
MatchingGuests ==
    {[idNumber |-> v, phone |-> "000", name |-> "Asha"] : v \in {"X1", "R2"}}

\* registerGuest has answered 201 for every guest and has handed off its
\* dispatch; the dispatches run together
PairInit ==
    /\ build \in {"async", "sync"}
    /\ hotel = [hotelName |-> "Grand", pinCode |-> "400001"]
    /\ adminStatus = [a \in AdminIds |-> "Active"]
    /\ ioReady = TRUE
    /\ guestsDb \in [PairIds -> MatchingGuests]
    /\ reg = [g \in PairIds |-> [pc |-> "returned", status |-> 201]]
    /\ dsp = [g \in PairIds |-> [NewDispatch EXCEPT !.pc = "scheduled"]]
    /\ alerts = {}
    /\ notifications = {}
    /\ emitted = {}
    /\ hotelStored = TRUE
    /\ RoomsIdle
    /\ CasesIdle
    /\ ListIdle
    /\ InboxIdle
    /\ SocketsIdle
    /\ SessionsIdle
    /\ ResetsIdle

PairNext ==
    \/ \E g \in PairIds : DispatchLookup(g)
    \/ \E g \in PairIds : AlertCreate(g)
    \/ \E g \in PairIds : AlertPopulate(g)
    \/ \E g \in PairIds : StationLookup(g)
    \/ \E g \in PairIds : FetchOfficers(g)
    \/ \E g \in PairIds : FetchAdmins(g)
    \/ \E g \in PairIds : Notify(g)
    \/ \E g \in PairIds : Broadcast(g)

PairSpec == PairInit /\ [][PairNext]_vars

\* the rows a dispatch on guest g creates when it runs alone with every
\* store call answering: one Alert and the notifications of the fan-out
SoloAlerts(g) == {AlertDraft(g, dsp[g].match)}

SoloNotifications(g) ==
    ExpectedOfficerNotifications(g)
        \cup (IF build = "async" THEN ExpectedAdminNotifications(g) ELSE {})

\* C26 as stated: two dispatches on different matching guests, under any
\* interleaving of their store calls, each end with their own Alert
\* referencing their own guest and their own set of Notifications, and
\* the rows each one creates are those it creates when it runs alone.
C26_IndependentDispatches ==
    \A g \in PairIds :
        (Ended(g) /\ StoresAvailable(g))
            => /\ AlertsOf(g) = SoloAlerts(g)
               /\ NotificationsOf(g) = SoloNotifications(g)
               /\ \A h \in PairIds \ {g} :
                     /\ AlertsOf(g) \cap AlertsOf(h) = {}
                     /\ NotificationsOf(g) \cap NotificationsOf(h) = {}

\* --------------------------------------------- claims about the two payloads
\* the guest fields named by the claim
IdentityFields == {"name", "idNumber", "roomNumber"}

\* the payload holds a field of the guest's identity, in its alert or in
\* its message
CarriesGuestIdentity(e) ==
    \/ IdentityFields \cap DOMAIN e.alert.guest # {}
    \/ \E i \in DOMAIN e.message : e.message[i] = guestsDb[e.by].name

\* C27 as stated: the event emitted to the global admin room carries the
\* station's name and city but none of the guest's identity fields (name,
\* ID number, room number); only the station-room event carries those
\* guest fields and the hotel name.
C27_AdminPayloadTerse ==
    \A e \in emitted :
        /\ e.type = "WATCHLIST_HIT_ADMIN"
              => /\ e.stationName = StationDoc(dsp[e.by].station).name
                 /\ \E i \in DOMAIN e.message :
                       e.message[i] = StationDoc(dsp[e.by].station).city
                 /\ e.hotelName = NULL
                 /\ ~CarriesGuestIdentity(e)
        /\ e.type = "WATCHLIST_HIT"
              => /\ CarriesGuestIdentity(e)
                 /\ e.hotelName = hotel.hotelName

\* ========================================================== the socket desk
\* the room of a station (the variant has one room for all stations)
StationRoomShared(station) == <<"station">>

StationRoom(station) == <<"station", station>>

\* the rooms a socket joins before any await of the connection handler
RoomsAtConnect(h) ==
    (IF personal THEN {<<"user", h.role, h.id>>} ELSE {})
    \cup (IF h.role = "Regional Admin" THEN {<<"admin_global">>} ELSE {})
    \cup (IF personal /\ h.role = "Hotel" THEN {<<"hotel", h.id>>} ELSE {})

\* io.use(...) and the connection handler up to its first await
Connect(c) ==
    /\ sk[c].pc = "idle"
    /\ \A b \in SocketIds : b < c => sk[b].pc # "idle"
    /\ \E h \in Handshakes :
         sk' = [sk EXCEPT ![c] =
               IF h.token # "valid"
               THEN [@ EXCEPT !.pc = "rejected", !.token = h.token]
               ELSE [@ EXCEPT !.pc = IF h.role = "Police" THEN "lookup"
                                     ELSE "connected",
                              !.token = h.token, !.role = h.role, !.id = h.id,
                              !.rooms = RoomsAtConnect(h)]]
    /\ UNCHANGED <<personal, posting, received>>
    /\ UNCHANGED outsideSockets

\* await Police.findById(socket.user.id).select('policeStation') answers; an
\* error is caught and the socket stays out of the station room
JoinStation(c) ==
    /\ sk[c].pc = "lookup"
    /\ \E ok \in BOOLEAN :
         sk' = [sk EXCEPT ![c] =
               IF ok /\ sk[c].id \in DOMAIN posting
               THEN [@ EXCEPT !.pc = "connected",
                              !.station = posting[sk[c].id],
                              !.rooms = @ \cup {StationRoom(posting[sk[c].id])}]
               ELSE [@ EXCEPT !.pc = "connected"]]
    /\ UNCHANGED <<personal, posting, received>>
    /\ UNCHANGED outsideSockets

\* the client goes away: socket.io takes the socket out of its rooms
Disconnect(c) ==
    /\ sk[c].pc \in {"lookup", "connected"}
    /\ sk' = [sk EXCEPT ![c] = [@ EXCEPT !.pc = "closed", !.rooms = {}]]
    /\ UNCHANGED <<personal, posting, received>>
    /\ UNCHANGED outsideSockets

\* an officer is posted to another station
Transfer(o) ==
    /\ \E st \in StationIds \ {posting[o]} :
         posting' = [posting EXCEPT ![o] = st]
    /\ UNCHANGED <<personal, sk, received>>
    /\ UNCHANGED outsideSockets

\* the sockets an emit to a room reaches
SocketsIn(room) ==
    {c \in SocketIds : sk[c].pc \in {"lookup", "connected"}
                        /\ room \in sk[c].rooms}

\* the broadcast of a dispatch that resolved a station:
\* io.to(stationRoom).emit(...), then io.to('admin_global').emit(...)
DeliverBroadcast(st) ==
    /\ \E k \in 0..2 :
         received' = received
            \cup (IF k >= 1
                  THEN {<<c, "WATCHLIST_HIT", st>> : c \in SocketsIn(StationRoom(st))}
                  ELSE {})
            \cup (IF k >= 2
                  THEN {<<c, "WATCHLIST_HIT_ADMIN", st>> :
                           c \in SocketsIn(<<"admin_global">>)}
                  ELSE {})
    /\ UNCHANGED <<personal, posting, sk>>
    /\ UNCHANGED outsideSockets

SocketInit ==
    /\ build = "async"
    /\ hotelStored = TRUE
    /\ RoomsIdle
    /\ DispatchIdle
    /\ alerts = {}
    /\ CasesIdle
    /\ ListIdle
    /\ InboxIdle
    /\ SessionsIdle
    /\ ResetsIdle
    /\ personal \in BOOLEAN
    /\ posting = [o \in ConnectingAccounts |-> policeStationOf(o)]
    /\ sk = [c \in SocketIds |-> NewSocket]
    /\ received = {}

SocketNext ==
    \/ \E c \in SocketIds : Connect(c)
    \/ \E c \in SocketIds : JoinStation(c)
    \/ \E c \in SocketIds : Disconnect(c)
    \/ \E o \in ConnectingAccounts : Transfer(o)
    \/ \E st \in StationIds : DeliverBroadcast(st)

SocketSpec == SocketInit /\ [][SocketNext]_vars

\* C28: the WATCHLIST_HIT event of a dispatch is delivered only to
\* connected sockets that authenticated with a valid token of role Police
\* and whose officer record named the resolved station when they connected;
\* sockets of officers of other stations, of hotels, and connections with a
\* missing or invalid token never receive it, and only sockets of role
\* 'Regional Admin' receive the admin-room event.
C28_DeliveryIsolation ==
    \A c \in SocketIds, st \in StationIds :
        /\ <<c, "WATCHLIST_HIT", st>> \in received
              => /\ sk[c].token = "valid"
                 /\ sk[c].role = "Police"
                 /\ sk[c].station = st
        /\ <<c, "WATCHLIST_HIT_ADMIN", st>> \in received
              => (sk[c].token = "valid" /\ sk[c].role = "Regional Admin")
        /\ sk[c].token # "valid"
              => \A e \in received : e[1] # c

\* an officer of station s1 received the station event of s1, an admin
\* received the admin event, and a broadcast for station s2 reached no
\* officer socket
C28_Witness ==
    \E c, b \in SocketIds :
        /\ <<c, "WATCHLIST_HIT", "s1">> \in received
        /\ sk[c].role = "Police" /\ sk[c].station = "s1"
        /\ <<b, "WATCHLIST_HIT_ADMIN", "s2">> \in received
        /\ <<c, "WATCHLIST_HIT", "s2">> \notin received

\* ------------------------------------- claims about rooms under concurrency
\* no registerGuest or checkoutGuest call is in flight, and no room write
\* or access-log write of one is pending
FrontDeskQuiet ==
    /\ \A r \in StayIds :
          rq[r].pc \in {"idle", "returned"} /\ rq[r].roomOp # "pending"
    /\ \A c \in DOMAIN co :
          /\ co[c].pc \in {"idle", "returned"}
          /\ co[c].vacate \notin {"scheduled", "found"}
          /\ co[c].logOp # "pending"

\* g is a Checked-In guest staying in room n (the guest of the hotel's
\* set-up stays in the room that is Occupied from the start)
StaysIn(g, n) ==
    IF g = EarlierGuest THEN HotelRooms[n] = OccupiedBy(g)
    ELSE /\ guestDocs[g].status = "Checked-In"
         /\ guestDocs[g].roomNumber = n

\* C29 as stated: once no call or background task is in flight, a room is
\* Occupied with guestId g exactly when g is a Checked-In guest of the
\* hotel staying in that room; no two Checked-In guests hold the same room.
C29_RoomGuestConsistent ==
    FrontDeskQuiet
        => /\ \A n \in RoomNumbers, g \in StayIds \cup {EarlierGuest} :
                 rooms[n] = OccupiedBy(g) <=> StaysIn(g, n)
           /\ \A n \in RoomNumbers :
                 rooms[n].status = "Occupied"
                     => rooms[n].guestId \in StayIds \cup {EarlierGuest}
           /\ \A g, h \in StayIds, n \in RoomNumbers :
                 (StaysIn(g, n) /\ StaysIn(h, n)) => g = h

\* =================================================================== the inbox
\* the filter {_id: req.params.id, recipientUser: req.user._id} (the
\* variant filters by _id only)
OwnedOrNot(n, id, user) == n.id = id

Owned(n, id, user) ==
    n.id = id /\ <<n.recipientModel, n.recipientUser>> = user

\* Notification.findOneAndUpdate(filter, {isRead: true}, {new: true}), the
\* 404 when it returns null, the 200 otherwise
MarkAsRead(k) ==
    /\ mr[k].pc = "idle"
    /\ \A j \in MarkIds : j < k => mr[j].pc # "idle"
    /\ \E id \in {n.id : n \in notifications} \cup {NoNotificationId},
          user \in InboxUsers, ok \in BOOLEAN :
         LET c == [mr[k] EXCEPT !.id = id, !.user = user]
             hit == {n \in notifications : Owned(n, id, user)}
         IN IF ~ok
            THEN /\ mr' = [mr EXCEPT ![k] = Throw(c, 500, "store call failed")]
                 /\ UNCHANGED notifications
            ELSE IF hit = {}
            THEN /\ mr' = [mr EXCEPT ![k] =
                        Throw(c, 404, "notification not found or not authorized")]
                 /\ UNCHANGED notifications
            ELSE /\ notifications' =
                        (notifications \ hit)
                            \cup {[n EXCEPT !.isRead = TRUE] : n \in hit}
                 /\ mr' = [mr EXCEPT ![k] =
                        Throw(c, 200, "notification marked as read")]
    /\ UNCHANGED outsideInbox

\* the dispatch on guest 1 has stored its notifications for the officers
\* of station s1 and for the admins
InboxDispatch ==
    [NewDispatch EXCEPT !.pc = "done", !.station = "s1",
        !.match = CHOOSE e \in WatchlistCollection : e.value = "X1",
        !.officers = FindOfficers("s1"), !.admins = FindActiveAdmins]

InboxInit ==
    /\ build = "async"
    /\ hotel = [hotelName |-> "Grand", pinCode |-> "400001"]
    /\ adminStatus = [a \in AdminIds |-> "Active"]
    /\ ioReady = TRUE
    /\ guestsDb = [g \in GuestIds |->
                      [idNumber |-> "X1", phone |-> "000", name |-> "Asha"]]
    /\ reg = [g \in GuestIds |-> [pc |-> "returned", status |-> 201]]
    /\ dsp = [g \in GuestIds |-> InboxDispatch]
    /\ alerts = {}
    /\ notifications = Range(NotificationDocs(1, InboxDispatch))
    /\ emitted = {}
    /\ hotelStored = TRUE
    /\ RoomsIdle
    /\ CasesIdle
    /\ ListIdle
    /\ SessionsIdle
    /\ ResetsIdle
    /\ SocketsIdle
    /\ InboxIdle

InboxNext == \E k \in MarkIds : MarkAsRead(k)

InboxSpec == InboxInit /\ [][InboxNext]_vars

\* C30: markAsRead by a user who is not the notification's recipientUser
\* answers 404 and leaves the notification unchanged; only the recipient
\* can set isRead, and once isRead is true no operation sets it back to
\* false.
C30_OnlyRecipientMarks ==
    [][/\ \A k \in MarkIds :
            (/\ mr[k].pc = "idle" /\ mr'[k].pc = "returned"
             /\ mr'[k].message # "store call failed"
             /\ \A n \in notifications :
                   n.id = mr'[k].id
                      => <<n.recipientModel, n.recipientUser>> # mr'[k].user)
                => (mr'[k].status = 404 /\ notifications' = notifications)
       /\ \A n \in notifications' \ notifications :
            /\ n.isRead
            /\ [n EXCEPT !.isRead = FALSE] \in notifications
            /\ \E k \in MarkIds :
                  /\ mr'[k] # mr[k] /\ mr'[k].status = 200
                  /\ mr'[k].user = <<n.recipientModel, n.recipientUser>>
       /\ \A n \in notifications : n.isRead => n \in notifications'
       /\ {n.id : n \in notifications'} = {n.id : n \in notifications}]_vars

\* a user who is not the recipient was answered 404 for a notification
\* that is still unread, and a recipient has marked another one
C30_Witness ==
    \E j, k \in MarkIds :
        /\ mr[j].status = 404
        /\ \E n \in notifications :
              /\ n.id = mr[j].id /\ ~n.isRead
              /\ <<n.recipientModel, n.recipientUser>> # mr[j].user
        /\ mr[k].status = 200
        /\ \E n \in notifications :
              /\ n.id = mr[k].id /\ n.isRead
              /\ <<n.recipientModel, n.recipientUser>> = mr[k].user

====
